---- MODULE Spec2Model ----
(***************************************************************************)
(* A model of the cookie-browser rendering engine (src/src/engine):        *)
(* HTML tokenizer and parser, selector matching and specificity, the       *)
(* style resolver, block layout and the display list.                      *)
(*                                                                         *)
(* Strings that the code splits are modelled as sequences of tokens; the   *)
(* splitting itself is modelled.  Each stage has its own specification     *)
(* (SpecStyle, SpecTok, ...) that draws the stage's inputs in Init and     *)
(* applies the stage; the variables of the other stages stay idle.         *)
(***************************************************************************)
EXTENDS Integers, Sequences, FiniteSets, TLC

VARIABLES
  stylePc,    \* "input" before styleTree is called, "styled" after
  dom,        \* the DOM tree given to styleTree: nodes in document order
  sheet,      \* the stylesheet given to styleTree: a sequence of rules
  styled,     \* styleTree's result: the resolved style map of every node
  selPc,      \* "input" before calculateSpecificity is called, "done" after
  selIn,      \* the selector given to calculateSpecificity
  specOut,    \* what calculateSpecificity returned
  tokPc,      \* "scan" inside tokenize's loop, "done" after it returned
  html,       \* the string given to tokenize: a sequence of characters
  tokPos,     \* pos, the cursor (0-based, as in the code)
  tokens,     \* the tokens pushed so far
  tokIter,    \* iterations of the scan loop so far
  parsePc,    \* "loop" inside the parser's token loop, "done" after it returned
  parser,     \* which parser runs: "parseHTML" or "parse"
  tokenList,  \* the tokens the parser iterates over
  tokenIdx,   \* index of the next token of tokenList
  nodes,      \* the tree built so far; nodes[1] is root
  stack,      \* the open-element stack: indices into nodes, stack[1] is root
  ignored,    \* history: indices of the end tags that matched no open element
  returned,   \* index in nodes of the node the parser returned (0 before)
  layPc,      \* "input" before layoutTree, "laid" after it, "painted" after
              \* buildDisplayList
  styledTree, \* the styled tree given to layoutTree
  viewportWidth,  \* the viewport width given to layoutTree
  layoutRoot, \* the LayoutNode layoutTree returned
  commands,   \* the display list buildDisplayList returned
  lenPc,      \* "input" before parseLength is called, "done" after
  lenValue,   \* the value given to parseLength: a sequence of characters, <<>> missing
  lenContainer, \* containerSize, in hundredths of a pixel
  lenFont,    \* fontSize, in hundredths of a pixel
  lenOut,     \* what parseLength returned, in hundredths of a pixel
  pipePc,     \* "call" at a call of getDisplayList, "returned" after it
  pipeCall,   \* the html, css and width of the call
  pipeOut,    \* the display list the last call returned
  pipeLog,    \* history: every call so far with the list it returned
  renPc,      \* where render stands: "stages", "painter", "clear", "draw", then "returned" or "threw"
  renCall,    \* the call: html, css and width, whether a stage throws, whether the canvas has a 2D context
  renList,    \* displayList
  renNext,    \* index of the next command of the loop over displayList
  surface,    \* what is painted on the canvas: the commands drawn since the last clear
  renOps,     \* history: the surface operations of this call, "clear" or the index of a drawn command
  renBefore,  \* history: what the surface held when this call began
  renCount,   \* calls of render so far
  matchPc,    \* "input" before matches is called, "done" after
  matchNode,  \* the node given to matches
  matchSel,   \* the selector given to matches
  matchOut,   \* what matches returned
  localStorage, \* the item stored under the key cookie-jar
  jarNow,     \* Date.now(), in minutes
  jarCall,    \* history: the last call, its name and the id it was given or made
  jarOut,     \* what the last call returned
  jarCalls,   \* calls and clock advances so far
  tabs,       \* the tab list of App
  activeTabId, \* the id of the active tab
  historyStack, \* the back and forward stack of the active tab
  trails,     \* breadcrumbs.ts trails, tab id to crumbs
  appStorage, \* the cookie-jar item of localStorage under App
  appNow,     \* Date.now() in minutes under App, -1 outside the app stage
  appCall,    \* the last handler run and the tab id it ran with
  appCount,   \* handlers run so far
  crumbHeap,  \* the crumb objects made so far
  trailRefs,  \* breadcrumbs.ts trails, tab id to an array of crumb objects
  exported,   \* the array the last exportTrail returned
  callerCrumbs, \* the array the caller handed to the last setTrail
  trailCall,  \* the last call on breadcrumbs.ts
  addsOnly,   \* only addCrumb has been called so far
  trailCalls, \* calls made so far
  cssPc,      \* where the CSS parser is
  cssIn,      \* the CSS text
  cssTokens,  \* what tokenizeCSS made of it
  cssI,       \* the next token of the parser, counted from 1
  cssRules    \* the rules made so far

varsStyle == <<stylePc, dom, sheet, styled>>

varsSel == <<selPc, selIn, specOut>>

varsTok == <<tokPc, html, tokPos, tokens, tokIter>>

varsParse == <<parsePc, parser, tokenList, tokenIdx, nodes, stack, ignored, returned>>

varsLayout == <<layPc, styledTree, viewportWidth, layoutRoot, commands>>

varsLen == <<lenPc, lenValue, lenContainer, lenFont, lenOut>>

varsPipe == <<pipePc, pipeCall, pipeOut, pipeLog>>

varsRender == <<renPc, renCall, renList, renNext, surface, renOps, renBefore, renCount>>

varsMatch == <<matchPc, matchNode, matchSel, matchOut>>

varsJar == <<localStorage, jarNow, jarCall, jarOut, jarCalls>>

varsApp == <<tabs, activeTabId, historyStack, trails, appStorage, appNow, appCall, appCount>>

varsTrail == <<crumbHeap, trailRefs, exported, callerCrumbs, trailCall, addsOnly, trailCalls>>

varsCss == <<cssPc, cssIn, cssTokens, cssI, cssRules>>

vars == <<varsStyle, varsSel, varsTok, varsParse, varsLayout, varsLen,
          varsPipe, varsRender, varsMatch, varsJar, varsApp, varsTrail,
          varsCss>>

\* a step of one stage leaves the variables of the other stages alone
OnlyStyle == UNCHANGED <<varsSel, varsTok, varsParse, varsLayout, varsLen,
                         varsPipe, varsRender, varsMatch, varsJar, varsApp,
                         varsTrail, varsCss>>

OnlySel == UNCHANGED <<varsStyle, varsTok, varsParse, varsLayout, varsLen,
                       varsPipe, varsRender, varsMatch, varsJar, varsApp,
                       varsTrail, varsCss>>

OnlyTok == UNCHANGED <<varsStyle, varsSel, varsParse, varsLayout, varsLen,
                       varsPipe, varsRender, varsMatch, varsJar, varsApp,
                       varsTrail, varsCss>>

OnlyParse == UNCHANGED <<varsStyle, varsSel, varsTok, varsLayout, varsLen,
                         varsPipe, varsRender, varsMatch, varsJar, varsApp,
                         varsTrail, varsCss>>

OnlyLayout == UNCHANGED <<varsStyle, varsSel, varsTok, varsParse, varsLen,
                          varsPipe, varsRender, varsMatch, varsJar, varsApp,
                          varsTrail, varsCss>>

OnlyLen == UNCHANGED <<varsStyle, varsSel, varsTok, varsParse, varsLayout,
                       varsPipe, varsRender, varsMatch, varsJar, varsApp,
                       varsTrail, varsCss>>

OnlyPipe == UNCHANGED <<varsStyle, varsSel, varsTok, varsParse, varsLayout,
                        varsLen, varsRender, varsMatch, varsJar, varsApp,
                        varsTrail, varsCss>>

OnlyRender == UNCHANGED <<varsStyle, varsSel, varsTok, varsParse, varsLayout,
                          varsLen, varsPipe, varsMatch, varsJar, varsApp,
                          varsTrail, varsCss>>

OnlyMatch == UNCHANGED <<varsStyle, varsSel, varsTok, varsParse, varsLayout,
                         varsLen, varsPipe, varsRender, varsJar, varsApp,
                         varsTrail, varsCss>>

OnlyJar == UNCHANGED <<varsStyle, varsSel, varsTok, varsParse, varsLayout,
                       varsLen, varsPipe, varsRender, varsMatch, varsApp,
                       varsTrail, varsCss>>

OnlyApp == UNCHANGED <<varsStyle, varsSel, varsTok, varsParse, varsLayout,
                       varsLen, varsPipe, varsRender, varsMatch, varsJar,
                       varsTrail, varsCss>>

OnlyTrail == UNCHANGED <<varsStyle, varsSel, varsTok, varsParse, varsLayout,
                         varsLen, varsPipe, varsRender, varsMatch, varsJar,
                         varsApp, varsCss>>

OnlyCss == UNCHANGED <<varsStyle, varsSel, varsTok, varsParse, varsLayout,
                       varsLen, varsPipe, varsRender, varsMatch, varsJar,
                       varsApp, varsTrail>>

(***************************************************************************)
(* Bounds of the model.                                                    *)
(***************************************************************************)
MaxRules == 2          \* rules in a stylesheet
MaxSuffixes == 2       \* .class / #id parts after the tag name of a selector
MaxPieces == 4         \* pieces an input of tokenize is put together from
MaxTokens == 3         \* tokens in a token stream given to the parser
MaxChildren == 2       \* children of the root of a styled tree given to layoutTree

(***************************************************************************)
(* Strings as token sequences.  A string that the code splits on           *)
(* whitespace is a sequence of non-empty chunks and whitespace runs " ",   *)
(* alternating.                                                            *)
(***************************************************************************)
Last(s) == s[Len(s)]

Front(s) == SubSeq(s, 1, Len(s) - 1)

\* str.split(/\s+/)
SplitWs(s) ==
  LET words == SelectSeq(s, LAMBDA t : t # " ")
      lead  == IF s = <<>> \/ s[1] = " " THEN <<"">> ELSE <<>>
      trail == IF s # <<>> /\ Last(s) = " " THEN <<"">> ELSE <<>>
  IN  lead \o words \o trail

\* Array.prototype.includes
Includes(s, v) == \E i \in DOMAIN s : s[i] = v

\* a JavaScript string is truthy iff it is not empty
Truthy(v) == v # ""

(***************************************************************************)
(* DOM nodes (html/parser.ts DOMNode).  attributes is the attribute Map:   *)
(* has is the set of keys, and class / id / style are the values of those  *)
(* keys (meaningful only for a key in has; any other key has the value     *)
(* '').  A tree is the sequence of its nodes in creation order: parent is  *)
(* the index of the node whose children array holds the node (0 for the    *)
(* root), parentRef is the node's parent property (0 for undefined), and   *)
(* textContent is a sequence of characters.                                *)
(***************************************************************************)
AttrMap(names) == [has |-> names, class |-> <<>>, id |-> "", style |-> <<>>]

NoAttrs == AttrMap({})

Attrs(cls, id, style) ==
  [has   |-> (IF cls = <<>> THEN {} ELSE {"class"})
               \cup (IF id = "" THEN {} ELSE {"id"})
               \cup (IF style = <<>> THEN {} ELSE {"style"}),
   class |-> cls, id |-> id, style |-> style]

Node(type, tag, attrs, text, parent) ==
  [type |-> type, tagName |-> tag, attributes |-> attrs,
   textContent |-> text, parent |-> parent, parentRef |-> parent]

\* createElement, createTextNode, createCommentNode and the document root
Element(tag, attrs, parent) == Node("element", tag, attrs, <<>>, parent)

TextNode(text, parent) == Node("text", "", NoAttrs, text, parent)

CommentNode(text, parent) == Node("comment", "", NoAttrs, text, parent)

DocumentNode == Node("document", "", NoAttrs, <<>>, 0)

\* node.children, as indices into the tree, in order
Children(tree, n) == SelectSeq([i \in 1..Len(tree) |-> i], LAMBDA i : tree[i].parent = n)

(***************************************************************************)
(* Selectors, declarations and rules (css/parser.ts).                      *)
(***************************************************************************)
Sel(type, value) == [type |-> type, value |-> value, parts |-> <<>>]

Compound(value, parts) == [type |-> "compound", value |-> value, parts |-> parts]

Decl(property, value) == [property |-> property, value |-> value]

Rule(selectors, declarations) == [selectors |-> selectors, declarations |-> declarations]

(***************************************************************************)
(* style/matcher.ts                                                        *)
(***************************************************************************)
RECURSIVE matches(_, _)
matches(node, selector) ==
  IF node.type # "element" THEN FALSE
  ELSE CASE selector.type = "universal" -> TRUE
         [] selector.type = "tag" -> node.tagName = selector.value
         [] selector.type = "class" ->
              LET classes == IF "class" \in node.attributes.has
                             THEN SplitWs(node.attributes.class) ELSE <<>>
              IN  Includes(classes, selector.value)
         [] selector.type = "id" ->
              "id" \in node.attributes.has /\ node.attributes.id = selector.value
         [] selector.type = "compound" ->
              \A i \in DOMAIN selector.parts : matches(node, selector.parts[i])
         [] OTHER -> FALSE

\* matchesAnySelector: its file is not in the sources; a rule applies to a
\* node when one selector of its list matches
matchesAnySelector(node, selectors) ==
  \E i \in DOMAIN selectors : matches(node, selectors[i])

(***************************************************************************)
(* style/specificity.ts                                                    *)
(***************************************************************************)
Specificity(a, b, c) == [a |-> a, b |-> b, c |-> c]

calculateSpecificity(selector) ==
  CASE selector.type = "id" -> Specificity(1, 0, 0)
    [] selector.type = "class" -> Specificity(0, 1, 0)
    [] selector.type = "tag" -> Specificity(0, 0, 1)
    [] selector.type = "universal" -> Specificity(0, 0, 0)
    [] OTHER -> Specificity(0, 0, 0)

RECURSIVE calculateCombinedSpecificity(_)
calculateCombinedSpecificity(selectors) ==
  IF selectors = <<>> THEN Specificity(0, 0, 0)
  ELSE LET acc  == calculateCombinedSpecificity(Front(selectors))
           spec == calculateSpecificity(Last(selectors))
       IN  Specificity(acc.a + spec.a, acc.b + spec.b, acc.c + spec.c)

compareSpecificity(spec1, spec2) ==
  IF spec1.a # spec2.a THEN spec1.a - spec2.a
  ELSE IF spec1.b # spec2.b THEN spec1.b - spec2.b
  ELSE spec1.c - spec2.c

(***************************************************************************)
(* style/compute.ts (the resolver with inline styles and the               *)
(* specificity-aware cascade, lines 209-452).  A ComputedStyles Map is a   *)
(* function from the property names that are set to their values.          *)
(***************************************************************************)
Has(m, k) == k \in DOMAIN m

Put(m, k, v) == [x \in (DOMAIN m) \cup {k} |-> IF x = k THEN v ELSE m[x]]

\* Map.get(k) used for its truthiness: undefined and "" are both falsy
GetOr(m, k, d) == IF Has(m, k) THEN m[k] ELSE d

EmptyMap == <<>>

INHERITED_PROPERTIES ==
  {"color", "font-family", "font-size", "font-style", "font-weight",
   "line-height", "text-align", "text-decoration", "text-transform",
   "visibility", "white-space", "word-spacing", "letter-spacing", "cursor"}

BlockMargins(top, bottom) ==
  ("display" :> "block") @@ ("margin-top" :> top) @@ ("margin-bottom" :> bottom)

Heading(size, margin) ==
  BlockMargins(margin, margin) @@ ("font-size" :> size) @@ ("font-weight" :> "bold")

DEFAULT_STYLES(tag) ==
  CASE tag = "div" -> ("display" :> "block")
    [] tag = "p"   -> BlockMargins("1em", "1em")
    [] tag = "h1"  -> Heading("2em", "0.67em")
    [] tag = "h2"  -> Heading("1.5em", "0.83em")
    [] tag = "h3"  -> Heading("1.17em", "1em")
    [] tag = "h4"  -> BlockMargins("1.33em", "1.33em") @@ ("font-weight" :> "bold")
    [] tag = "h5"  -> Heading("0.83em", "1.67em")
    [] tag = "h6"  -> Heading("0.67em", "2.33em")
    [] tag \in {"ul", "ol"} -> BlockMargins("1em", "1em") @@ ("padding-left" :> "40px")
    [] tag = "li"  -> ("display" :> "list-item")
    [] tag = "span" -> ("display" :> "inline")
    [] tag = "a"   -> ("display" :> "inline") @@ ("color" :> "blue")
                        @@ ("text-decoration" :> "underline")
    [] tag \in {"strong", "b"} -> ("display" :> "inline") @@ ("font-weight" :> "bold")
    [] tag \in {"em", "i"} -> ("display" :> "inline") @@ ("font-style" :> "italic")
    [] tag = "img" -> ("display" :> "inline-block")
    [] tag = "br"  -> ("display" :> "inline")
    [] tag = "hr"  -> BlockMargins("0.5em", "0.5em") @@ ("border-top" :> "1px solid gray")
    [] OTHER -> EmptyMap

GLOBAL_DEFAULTS ==
  ("color" :> "black") @@ ("background" :> "transparent") @@ ("font-family" :> "serif")
    @@ ("font-size" :> "16px") @@ ("font-weight" :> "normal")
    @@ ("font-style" :> "normal") @@ ("display" :> "inline")

\* a ComputedStyles Map with, beside it, the specificity recorded per property
Resolved(styles, specificities) == [styles |-> styles, specificities |-> specificities]

\* styles.set(prop, value); specificities.set(prop, (0,0,0)) for every entry of table
SetAll(acc, table) ==
  Resolved([p \in (DOMAIN acc.styles) \cup (DOMAIN table) |->
              IF p \in DOMAIN table THEN table[p] ELSE acc.styles[p]],
           [p \in (DOMAIN acc.specificities) \cup (DOMAIN table) |->
              IF p \in DOMAIN table THEN Specificity(0, 0, 0) ELSE acc.specificities[p]])

\* getMatchingRules: the matching rules in stylesheet order, each with the
\* combined specificity of its whole selector list
getMatchingRules(node, stylesheet) ==
  LET idx == SelectSeq([i \in 1..Len(stylesheet) |-> i],
                       LAMBDA i : matchesAnySelector(node, stylesheet[i].selectors))
  IN  [k \in 1..Len(idx) |->
         [rule |-> stylesheet[idx[k]],
          specificity |-> calculateCombinedSpecificity(stylesheet[idx[k]].selectors)]]

\* Array.prototype.sort with (a, b) => compareSpecificity(a.specificity, b.specificity):
\* ascending and stable
InsertSorted(sorted, x) ==
  LET k == Cardinality({i \in DOMAIN sorted :
                          compareSpecificity(sorted[i].specificity, x.specificity) <= 0})
  IN  SubSeq(sorted, 1, k) \o <<x>> \o SubSeq(sorted, k + 1, Len(sorted))

RECURSIVE SortBySpecificity(_)
SortBySpecificity(matched) ==
  IF matched = <<>> THEN <<>>
  ELSE InsertSorted(SortBySpecificity(Front(matched)), Last(matched))

\* a cascade in which an equal specificity does not override
OverridesOnlyHigher(specificity, acc, property) ==
  \/ ~ Has(acc.specificities, property)
  \/ compareSpecificity(specificity, acc.specificities[property]) > 0

\* the test of applyDeclarations: no recorded specificity, or higher/equal
Overrides(specificity, acc, property) ==
  \/ ~ Has(acc.specificities, property)
  \/ compareSpecificity(specificity, acc.specificities[property]) >= 0

RECURSIVE applyDeclarations(_, _, _)
applyDeclarations(acc, declarations, specificity) ==
  IF declarations = <<>> THEN acc
  ELSE LET decl == Head(declarations)
           next == IF Overrides(specificity, acc, decl.property)
                   THEN Resolved(Put(acc.styles, decl.property, decl.value),
                                 Put(acc.specificities, decl.property, specificity))
                   ELSE acc
       IN  applyDeclarations(next, Tail(declarations), specificity)

RECURSIVE ApplyMatched(_, _)
ApplyMatched(acc, matchedRules) ==
  IF matchedRules = <<>> THEN acc
  ELSE ApplyMatched(applyDeclarations(acc, Head(matchedRules).rule.declarations,
                                      Head(matchedRules).specificity),
                    Tail(matchedRules))

(***************************************************************************)
(* parseInlineStyles.  A style attribute is a sequence of tokens: ";",     *)
(* ":" and the text between them, already trimmed ("" for blank text).     *)
(***************************************************************************)
RECURSIVE SplitOn(_, _)
SplitOn(s, sep) ==
  IF \A i \in DOMAIN s : s[i] # sep THEN <<s>>
  ELSE LET k == CHOOSE i \in DOMAIN s : s[i] = sep /\ \A j \in 1..(i - 1) : s[j] # sep
       IN  <<SubSeq(s, 1, k - 1)>> \o SplitOn(SubSeq(s, k + 1, Len(s)), sep)

RECURSIVE Join(_)
Join(s) == IF s = <<>> THEN "" ELSE Head(s) \o Join(Tail(s))

\* part.indexOf(':'), 1-based, 0 when there is none
IndexOf(s, v) ==
  IF \A i \in DOMAIN s : s[i] # v THEN 0
  ELSE CHOOSE i \in DOMAIN s : s[i] = v /\ \A j \in 1..(i - 1) : s[j] # v

RECURSIVE InlineDecls(_)
InlineDecls(parts) ==
  IF parts = <<>> THEN <<>>
  ELSE LET part       == Head(parts)
           colonIndex == IndexOf(part, ":")
           property   == Join(SubSeq(part, 1, colonIndex - 1))
           value      == Join(SubSeq(part, colonIndex + 1, Len(part)))
           here       == IF colonIndex # 0 /\ Truthy(property) /\ Truthy(value)
                         THEN <<Decl(property, value)>> ELSE <<>>
       IN  here \o InlineDecls(Tail(parts))

parseInlineStyles(styleAttr) == InlineDecls(SplitOn(styleAttr, ";"))

InlineSpecificity == Specificity(1, 0, 0)

\* node.attributes.get('style'): the empty token sequence is the empty string
StyleAttr(node) ==
  IF "style" \in node.attributes.has THEN node.attributes.style ELSE <<>>

\* an inheritance step that copies every property of the parent
InheritedUnrestricted(parentStyles) ==
  [p \in {q \in DOMAIN parentStyles : Truthy(parentStyles[q])} |-> parentStyles[p]]

\* step 2 of computeNodeStyles: the truthy inherited properties of the parent
Inherited(parentStyles) ==
  [p \in {q \in INHERITED_PROPERTIES : Truthy(GetOr(parentStyles, q, ""))} |->
     parentStyles[p]]

TagDefaults(node) ==
  IF node.type = "element" /\ Truthy(node.tagName)
  THEN DEFAULT_STYLES(node.tagName) ELSE EmptyMap

\* parentStyles is EmptyMap for null: both give step 2 nothing to copy
computeNodeStyles(node, stylesheet, parentStyles) ==
  LET s1 == SetAll(Resolved(EmptyMap, EmptyMap), GLOBAL_DEFAULTS)
      s2 == SetAll(s1, Inherited(parentStyles))
      s3 == SetAll(s2, TagDefaults(node))
      s4 == ApplyMatched(s3, SortBySpecificity(getMatchingRules(node, stylesheet)))
      s5 == IF StyleAttr(node) # <<>> /\ Join(StyleAttr(node)) # ""
            THEN applyDeclarations(s4, parseInlineStyles(StyleAttr(node)),
                                   InlineSpecificity)
            ELSE s4
  IN  s5.styles

RECURSIVE styleNodeRecursive(_, _, _)
styleNodeRecursive(tree, stylesheet, n) ==
  computeNodeStyles(tree[n], stylesheet,
                    IF tree[n].parent = 0 THEN EmptyMap
                    ELSE styleNodeRecursive(tree, stylesheet, tree[n].parent))

\* the styled tree has one StyledNode per DOM node, in the same shape
styleTree(tree, stylesheet) ==
  [n \in 1..Len(tree) |-> styleNodeRecursive(tree, stylesheet, n)]

(***************************************************************************)
(* The style stage: Init draws a DOM tree and a stylesheet, StyleTree      *)
(* applies styleTree to them.                                              *)
(***************************************************************************)
\* the value rule i gives a property: distinct per rule, so that a resolved
\* value names the rule it came from
Colors == <<"red", "blue", "green", "orange">>

Margins == <<"10px", "20px", "30px", "40px">>

SelectorLists ==
  { <<Sel("tag", "div")>>,
    <<Sel("class", "a")>>,
    <<Sel("id", "main")>>,
    <<Compound("div.a", <<Sel("tag", "div"), Sel("class", "a")>>)>>,
    <<Sel("id", "main"), Sel("id", "x")>>,
    <<Sel("tag", "div"), Sel("class", "zz")>> }

RulesAt(i) ==
  { Rule(sl, d) : sl \in SelectorLists,
                  d \in { <<Decl("color", Colors[i])>>, <<Decl("margin", Margins[i])>> } }

RECURSIVE SheetsOfLen(_)
SheetsOfLen(k) ==
  IF k = 0 THEN { <<>> }
  ELSE { Append(sh, r) : sh \in SheetsOfLen(k - 1), r \in RulesAt(k) }

Sheets == UNION { SheetsOfLen(k) : k \in 0..MaxRules }

InlineStyles ==
  { <<>>,
    <<"color", ":", "purple">>,
    <<"margin", ":", "5px", ";", "color", ":", "purple", ";", "">> }

\* <div ...><span ...>t</span></div>
DomTrees ==
  { << Element("div", Attrs(cls, id, st), 0),
       Element("span", Attrs(ccls, "", <<>>), 1),
       TextNode(<<"t">>, 2) >> :
      cls \in { <<"a", " ", "b">> }, id \in {"", "main"},
      st \in InlineStyles, ccls \in { <<>>, <<"a">> } }

StyleInit ==
  /\ stylePc = "input"
  /\ dom \in DomTrees
  /\ sheet \in Sheets
  /\ styled = <<>>

StyleIdle ==
  /\ stylePc = "idle"
  /\ dom = <<>>
  /\ sheet = <<>>
  /\ styled = <<>>

\* a resolver that keeps the resolved inline declarations off the node
VisitedStripped(tree, n) == [tree[n] EXCEPT !.attributes.style = <<>>]

\* DOM node n once styleNodeRecursive has visited it: the resolver reads its
\* type, tag name, attributes and children, and assigns to none of them
Visited(tree, n) == tree[n]

\* the DOM tree as styleTree leaves it
DomAfterStyleTree(tree) == [n \in DOMAIN tree |-> Visited(tree, n)]

StyleTree ==
  /\ stylePc = "input"
  /\ styled' = styleTree(dom, sheet)
  /\ dom' = DomAfterStyleTree(dom)
  /\ stylePc' = "styled"
  /\ UNCHANGED sheet
  /\ OnlyStyle

(***************************************************************************)
(* What the cascade claims speak of.                                       *)
(***************************************************************************)
Declares(declarations, p) == \E i \in DOMAIN declarations : declarations[i].property = p

\* the value a declaration list gives p: its last declaration of p
DeclaredValue(declarations, p) ==
  declarations[CHOOSE i \in DOMAIN declarations :
                 /\ declarations[i].property = p
                 /\ \A j \in DOMAIN declarations : declarations[j].property = p => j <= i].value

RECURSIVE SumOfParts(_)
SumOfParts(parts) ==
  IF parts = <<>> THEN Specificity(0, 0, 0)
  ELSE LET acc == SumOfParts(Tail(parts))
           h   == Head(parts)
       IN  Specificity(acc.a + (IF h.type = "id" THEN 1 ELSE 0),
                       acc.b + (IF h.type = "class" THEN 1 ELSE 0),
                       acc.c + (IF h.type = "tag" THEN 1 ELSE 0))

\* a selector's specificity as the specification defines it
SelectorSpecificity(selector) ==
  IF selector.type = "compound" THEN SumOfParts(selector.parts)
  ELSE SumOfParts(<<selector>>)

\* rule i matches node n and some selector of i that matches n is strictly more
\* specific than every selector of rule j that matches n
StrictlyMoreSpecific(n, i, j) ==
  \E s \in DOMAIN sheet[i].selectors :
    /\ matches(dom[n], sheet[i].selectors[s])
    /\ \A t \in DOMAIN sheet[j].selectors :
         matches(dom[n], sheet[j].selectors[t]) =>
           compareSpecificity(SelectorSpecificity(sheet[i].selectors[s]),
                              SelectorSpecificity(sheet[j].selectors[t])) > 0

BothSet(n, i, j, p) ==
  /\ i # j
  /\ matchesAnySelector(dom[n], sheet[i].selectors)
  /\ matchesAnySelector(dom[n], sheet[j].selectors)
  /\ Declares(sheet[i].declarations, p)
  /\ Declares(sheet[j].declarations, p)

CascadeProps == {"color", "margin"}

InlineDeclares(n, p) == Declares(parseInlineStyles(StyleAttr(dom[n])), p)

\* C1: of two matching rules that set the same property, the one whose matching
\* selector is strictly less specific never provides the resolved value,
\* whichever comes first (rule values are distinct, so the resolved value names
\* its rule)
C1_HigherSpecificityWins ==
  stylePc = "styled" =>
    \A n \in DOMAIN dom : \A i, j \in DOMAIN sheet : \A p \in CascadeProps :
      (BothSet(n, i, j, p) /\ StrictlyMoreSpecific(n, i, j)) =>
        styled[n][p] # DeclaredValue(sheet[j].declarations, p)

\* C2: a property declared by the inline style attribute resolves to the inline
\* value, whatever rules match
C2_InlineAlwaysWins ==
  stylePc = "styled" =>
    \A n \in DOMAIN dom : \A p \in CascadeProps :
      InlineDeclares(n, p) =>
        /\ Has(styled[n], p)
        /\ styled[n][p] = DeclaredValue(parseInlineStyles(StyleAttr(dom[n])), p)

BoundaryProps ==
  INHERITED_PROPERTIES \cup
    {"margin", "padding", "border", "width", "height", "background", "display"}

\* node n gets p from a tag default, a matching rule or its inline style
OwnSource(n, p) ==
  \/ Has(TagDefaults(dom[n]), p)
  \/ \E i \in DOMAIN sheet :
       matchesAnySelector(dom[n], sheet[i].selectors) /\ Declares(sheet[i].declarations, p)
  \/ InlineDeclares(n, p)

\* C4: a child takes from its parent exactly the whitelisted properties: one it
\* gets from nowhere else equals the parent's value, and a property outside
\* the whitelist is never copied (it keeps the global default, or stays unset)
C4_InheritanceBoundary ==
  stylePc = "styled" =>
    \A n \in DOMAIN dom : \A p \in BoundaryProps :
      (dom[n].parent # 0 /\ ~ OwnSource(n, p)) =>
        IF p \in INHERITED_PROPERTIES /\ Has(styled[dom[n].parent], p)
        THEN Has(styled[n], p) /\ styled[n][p] = styled[dom[n].parent][p]
        ELSE IF Has(GLOBAL_DEFAULTS, p)
             THEN Has(styled[n], p) /\ styled[n][p] = GLOBAL_DEFAULTS[p]
             ELSE ~ Has(styled[n], p)

\* the parent sets margin and a colour, the child sets neither: the child has
\* the parent's colour and no margin
C4_Witness ==
  /\ stylePc = "styled"
  /\ Has(styled[1], "margin")
  /\ styled[1]["color"] # "black"
  /\ ~ OwnSource(2, "margin")
  /\ ~ OwnSource(2, "color")
  /\ styled[2]["color"] = styled[1]["color"]
  /\ ~ Has(styled[2], "margin")
  /\ dom[3].type = "text"
  /\ styled[3]["color"] = styled[1]["color"]

(***************************************************************************)
(* calculateSpecificity on its own: Init draws a selector as parseSelector *)
(* builds them (an optional tag name, then .class / #id parts; one part is *)
(* returned as it is, several as a compound), CalcSpecificity applies it.  *)
(***************************************************************************)
RECURSIVE SuffixLists(_)
SuffixLists(k) ==
  IF k = 0 THEN { <<>> }
  ELSE SuffixLists(k - 1) \cup
       { Append(sf, x) : sf \in { f \in SuffixLists(k - 1) : Len(f) = k - 1 },
                         x \in { Sel("class", "a"), Sel("class", "b"),
                                 Sel("id", "main"), Sel("id", "x") } }

PartLists ==
  { t \o sf : t \in { <<>>, <<Sel("tag", "div")>>, <<Sel("tag", "span")>> },
              sf \in SuffixLists(MaxSuffixes) }

ParsedSelectors ==
  { Sel("universal", "*") }
    \cup { ps[1] : ps \in { q \in PartLists : Len(q) = 1 } }
    \cup { Compound("compound", ps) : ps \in { q \in PartLists : Len(q) > 1 } }

SelInit ==
  /\ selPc = "input"
  /\ selIn \in ParsedSelectors
  /\ specOut = Specificity(0, 0, 0)

SelIdle ==
  /\ selPc = "idle"
  /\ selIn = Sel("universal", "*")
  /\ specOut = Specificity(0, 0, 0)

CalcSpecificity ==
  /\ selPc = "input"
  /\ specOut' = calculateSpecificity(selIn)
  /\ selPc' = "done"
  /\ UNCHANGED selIn
  /\ OnlySel

\* C5: calculateSpecificity of a compound selector is the componentwise sum of
\* the specificities of its parts (div.container gives (0,1,1)), and a
\* universal selector gives (0,0,0)
C5_CompoundSumsParts ==
  selPc = "done" =>
    /\ selIn.type = "compound" => specOut = SumOfParts(selIn.parts)
    /\ selIn.type = "universal" => specOut = Specificity(0, 0, 0)

(***************************************************************************)
(* html/tokenizer.ts.  The input is a sequence of one-character strings;   *)
(* positions are 0-based as in the code, -1 is indexOf's "not found".      *)
(***************************************************************************)
Min(a, b) == IF a < b THEN a ELSE b

Max(a, b) == IF a > b THEN a ELSE b

\* s.slice(from, to)
Slice(s, from, to) == SubSeq(s, from + 1, Min(to, Len(s)))

\* s.indexOf(pat, from)
IndexOfFrom(s, pat, from) ==
  LET hits == { i \in from..(Len(s) - Len(pat)) : Slice(s, i, i + Len(pat)) = pat }
  IN  IF hits = {} THEN -1 ELSE CHOOSE i \in hits : \A j \in hits : i <= j

IsSpace(c) == c = " "

RECURSIVE TrimStart(_)
TrimStart(s) == IF s # <<>> /\ IsSpace(Head(s)) THEN TrimStart(Tail(s)) ELSE s

RECURSIVE TrimEnd(_)
TrimEnd(s) == IF s # <<>> /\ IsSpace(Last(s)) THEN TrimEnd(Front(s)) ELSE s

Trim(s) == TrimEnd(TrimStart(s))

UpperCase == <<"A", "B", "C", "D", "E", "F", "G", "H", "I", "J", "K", "L", "M",
               "N", "O", "P", "Q", "R", "S", "T", "U", "V", "W", "X", "Y", "Z">>

LowerCase == <<"a", "b", "c", "d", "e", "f", "g", "h", "i", "j", "k", "l", "m",
               "n", "o", "p", "q", "r", "s", "t", "u", "v", "w", "x", "y", "z">>

LowerChar(c) ==
  IF \E k \in DOMAIN UpperCase : UpperCase[k] = c
  THEN LowerCase[CHOOSE k \in DOMAIN UpperCase : UpperCase[k] = c]
  ELSE c

ToLowerCase(s) == [i \in DOMAIN s |-> LowerChar(s[i])]

IsLetter(c) == \E k \in DOMAIN UpperCase : UpperCase[k] = c \/ LowerCase[k] = c

\* [a-zA-Z_:] and [-a-zA-Z0-9_:.] of the attribute regex
IsNameStart(c) == IsLetter(c) \/ c \in {"_", ":"}

IsNameChar(c) ==
  IsNameStart(c) \/ c \in {"-", ".", "0", "1", "2", "3", "4", "5", "6", "7", "8", "9"}

VOID_ELEMENTS ==
  {"area", "base", "br", "col", "embed", "hr", "img", "input",
   "link", "meta", "param", "source", "track", "wbr"}

\* the names the attribute regex finds in a string with no '=': at each letter
\* where a match starts, the longest run of name characters.  Every value is ''.
RECURSIVE AttributeNames(_)
AttributeNames(s) ==
  IF s = <<>> THEN {}
  ELSE IF ~ IsNameStart(Head(s)) THEN AttributeNames(Tail(s))
  ELSE LET stops == { i \in 1..Len(s) : ~ IsNameChar(s[i]) }
           end   == IF stops = {} THEN Len(s) + 1
                    ELSE CHOOSE i \in stops : \A j \in stops : i <= j
       IN  { Join(ToLowerCase(SubSeq(s, 1, end - 1))) }
             \cup AttributeNames(SubSeq(s, end, Len(s)))

\* parseTagContent: the tag name is the text before the first white space,
\* the attributes come from the rest
parseTagContent(content) ==
  LET spaces     == { i \in 1..Len(content) : IsSpace(content[i]) }
      firstSpace == IF spaces = {} THEN -1
                    ELSE (CHOOSE i \in spaces : \A j \in spaces : i <= j) - 1
  IN  IF firstSpace = -1
      THEN [tagName |-> content, attributes |-> {}]
      ELSE [tagName |-> Slice(content, 0, firstSpace),
            attributes |-> AttributeNames(Trim(Slice(content, firstSpace, Len(content))))]

\* a token; the text of a token is a sequence of characters
Token(type, tagName, attributes, textContent) ==
  [type |-> type, tagName |-> tagName, attributes |-> attributes,
   textContent |-> textContent]

AtTagOpen == tokPos < Len(html) /\ html[tokPos + 1] = "<"

EndComment == IndexOfFrom(html, <<"-", "-", ">">>, tokPos + 4)

IsComment ==
  /\ AtTagOpen
  /\ Slice(html, tokPos, tokPos + 4) = <<"<", "!", "-", "-">>
  /\ EndComment # -1

NextClose == IndexOfFrom(html, <<">">>, tokPos)

IsDoctype ==
  /\ AtTagOpen
  /\ ~ IsComment
  /\ ToLowerCase(Slice(html, tokPos, tokPos + 9))
       = <<"<", "!", "d", "o", "c", "t", "y", "p", "e">>
  /\ NextClose # -1

IsEndTag ==
  /\ AtTagOpen
  /\ ~ IsComment /\ ~ IsDoctype
  /\ tokPos + 1 < Len(html) /\ html[tokPos + 2] = "/"
  /\ NextClose # -1

IsTag ==
  /\ AtTagOpen
  /\ ~ IsComment /\ ~ IsDoctype /\ ~ IsEndTag
  /\ NextClose # -1

\* one more iteration of while (pos < html.length); the count stops one past
\* the number of iterations a loop that advances could need
Iterate ==
  /\ tokPc = "scan"
  /\ tokPos < Len(html)
  /\ tokIter <= Len(html)
  /\ tokIter' = tokIter + 1
  /\ UNCHANGED <<tokPc, html>>
  /\ OnlyTok

TokComment ==
  /\ Iterate
  /\ IsComment
  /\ tokens' = Append(tokens, Token("comment", "", NoAttrs,
                                    Slice(html, tokPos + 4, EndComment)))
  /\ tokPos' = EndComment + 3

TokDoctype ==
  /\ Iterate
  /\ IsDoctype
  /\ tokens' = Append(tokens, Token("doctype", "", NoAttrs,
                                    Trim(Slice(html, tokPos + 9, NextClose))))
  /\ tokPos' = NextClose + 1

TokEndTag ==
  /\ Iterate
  /\ IsEndTag
  /\ tokens' = Append(tokens,
                      Token("endTag",
                            Join(ToLowerCase(Trim(Slice(html, tokPos + 2, NextClose)))),
                            NoAttrs, <<>>))
  /\ tokPos' = NextClose + 1

TokTag ==
  /\ Iterate
  /\ IsTag
  /\ LET tagContent    == Slice(html, tokPos + 1, NextClose)
         isSelfClosing == tagContent # <<>> /\ Last(tagContent) = "/"
         cleanContent  == IF isSelfClosing THEN Trim(Front(tagContent))
                          ELSE Trim(tagContent)
         parsed        == parseTagContent(cleanContent)
         lowerTagName  == Join(ToLowerCase(parsed.tagName))
         isVoid        == lowerTagName \in VOID_ELEMENTS
     IN  tokens' = Append(tokens,
                          Token(IF isSelfClosing \/ isVoid THEN "selfClosingTag"
                                ELSE "startTag",
                                lowerTagName, AttrMap(parsed.attributes), <<>>))
  /\ tokPos' = NextClose + 1

\* the text branch, also reached at a '<' that no branch above consumed
TokText ==
  /\ Iterate
  /\ ~ IsComment /\ ~ IsDoctype /\ ~ IsEndTag /\ ~ IsTag
  /\ LET nextTag == IndexOfFrom(html, <<"<">>, tokPos)
         textEnd == IF nextTag = -1 THEN Len(html) ELSE nextTag
         text    == Slice(html, tokPos, textEnd)
     IN  /\ tokens' = IF Len(text) > 0
                      THEN Append(tokens, Token("text", "", NoAttrs, text))
                      ELSE tokens
         /\ tokPos' = textEnd

TokReturn ==
  /\ tokPc = "scan"
  /\ tokPos >= Len(html)
  /\ tokPc' = "done"
  /\ UNCHANGED <<html, tokPos, tokens, tokIter>>
  /\ OnlyTok

\* the inputs: up to MaxPieces pieces, put together character by character
Pieces ==
  { <<"<">>, <<">">>, <<"/">>, <<" ">>, <<"a">>, <<"b", "r">>,
    <<"<", "!", "-", "-">>, <<"-", "-", ">">>,
    <<"<", "!", "D", "O", "C", "T", "Y", "P", "E">> }

RECURSIVE Inputs(_)
Inputs(k) ==
  IF k = 0 THEN { <<>> }
  ELSE LET shorter == Inputs(k - 1)
       IN  shorter \cup { s \o pc : s \in shorter, pc \in Pieces }

TokInit ==
  /\ tokPc = "scan"
  /\ html \in Inputs(MaxPieces)
  /\ tokPos = 0
  /\ tokens = <<>>
  /\ tokIter = 0

TokIdle ==
  /\ tokPc = "idle"
  /\ html = <<>>
  /\ tokPos = 0
  /\ tokens = <<>>
  /\ tokIter = 0

\* C6: every iteration of tokenize's scan loop advances the cursor, so the loop
\* ends and tokenize returns, for every input
C6_EveryIterationAdvances == [][tokIter' # tokIter => tokPos' > tokPos]_vars

(***************************************************************************)
(* The HTML parser.  The repository has two: parse (html/parser.ts, which  *)
(* html/index.ts exports as parseHTML) and the parseHTML of the second     *)
(* copy of the parser; both run the same loop over the tokens with an      *)
(* open-element stack, and differ in the comment case and in what they do  *)
(* to the parent references before they return.                            *)
(***************************************************************************)
Parsers == {"parseHTML", "parse"}

\* a parser that closes the current element at every end tag
MatchIndexTop(stk, tree, tagName) == IF Len(stk) > 1 THEN Len(stk) ELSE 0

\* a parser that closes down to the lowest open element with the tag name
MatchIndexLowest(stk, tree, tagName) ==
  LET found == { i \in 2..Len(stk) : tree[stk[i]].tagName = tagName }
  IN  IF found = {} THEN 0 ELSE CHOOSE i \in found : \A j \in found : i <= j

\* the loop of the endTag case: the topmost stack position above root whose
\* element has the tag name, 0 when the loop ends without a match
MatchIndex(stk, tree, tagName) ==
  LET found == { i \in 2..Len(stk) : tree[stk[i]].tagName = tagName }
  IN  IF found = {} THEN 0 ELSE CHOOSE i \in found : \A j \in found : j <= i

\* one iteration of the token loop: the tree and the stack after the token
ParseToken(which, tree, stk, token) ==
  LET current == Last(stk)
      same    == [nodes |-> tree, stack |-> stk]
  IN  CASE token.type = "startTag" ->
             [nodes |-> Append(tree, Element(token.tagName, token.attributes, current)),
              stack |-> Append(stk, Len(tree) + 1)]
        [] token.type = "selfClosingTag" ->
             [nodes |-> Append(tree, Element(token.tagName, token.attributes, current)),
              stack |-> stk]
        [] token.type = "endTag" ->
             LET i == MatchIndex(stk, tree, token.tagName)
             IN  IF i # 0 THEN [nodes |-> tree, stack |-> SubSeq(stk, 1, i - 1)]
                 ELSE same
        [] token.type = "text" ->
             IF Trim(token.textContent) = <<>> /\ tree[current].type = "document"
             THEN same
             ELSE [nodes |-> Append(tree, TextNode(token.textContent, current)),
                   stack |-> stk]
        [] token.type = "comment" ->
             IF which = "parse"
             THEN [nodes |-> Append(tree, CommentNode(token.textContent, current)),
                   stack |-> stk]
             ELSE same
        [] OTHER -> same

\* delete child.parent / child.parent = undefined, for the nodes in ids
ClearParent(tree, ids) ==
  [i \in 1..Len(tree) |->
     IF i \in ids THEN [tree[i] EXCEPT !.parentRef = 0] ELSE tree[i]]

Range(s) == { s[i] : i \in 1..Len(s) }

\* what follows the loop: the returned node and the tree as it is then
ParseReturn(which, tree) ==
  LET children == Children(tree, 1)
  IN  IF Len(children) = 1 /\ tree[children[1]].type = "element"
      THEN [nodes |-> ClearParent(tree, {children[1]}), returned |-> children[1]]
      ELSE IF which = "parseHTML"
           THEN [nodes |-> ClearParent(tree, Range(children)), returned |-> 1]
           ELSE [nodes |-> tree, returned |-> 1]

\* the whole parser on a token sequence
RECURSIVE ParseLoop(_, _, _, _)
ParseLoop(which, tree, stk, toks) ==
  IF toks = <<>> THEN tree
  ELSE LET next == ParseToken(which, tree, stk, Head(toks))
       IN  ParseLoop(which, next.nodes, next.stack, Tail(toks))

ParseAll(which, toks) == ParseReturn(which, ParseLoop(which, <<DocumentNode>>, <<1>>, toks))

\* no element on the stack above root has the tag name
NoOpenElement(tagName) == \A i \in 2..Len(stack) : nodes[stack[i]].tagName # tagName

\* the loop body, for the next token of tokenList
Consume ==
  /\ parsePc = "loop"
  /\ tokenIdx <= Len(tokenList)
  /\ LET token == tokenList[tokenIdx]
         next  == ParseToken(parser, nodes, stack, token)
     IN  /\ nodes' = next.nodes
         /\ stack' = next.stack
         /\ ignored' = IF token.type = "endTag" /\ NoOpenElement(token.tagName)
                       THEN ignored \cup {tokenIdx} ELSE ignored
  /\ tokenIdx' = tokenIdx + 1
  /\ UNCHANGED <<parsePc, parser, tokenList, returned>>
  /\ OnlyParse

\* the next token is of the given type
NextTokenIs(type) == tokenIdx <= Len(tokenList) /\ tokenList[tokenIdx].type = type

ParseStartTag ==
  /\ NextTokenIs("startTag")
  /\ Consume

ParseSelfClosingTag ==
  /\ NextTokenIs("selfClosingTag")
  /\ Consume

ParseEndTag ==
  /\ NextTokenIs("endTag")
  /\ Consume

ParseText ==
  /\ NextTokenIs("text")
  /\ Consume

ParseComment ==
  /\ NextTokenIs("comment")
  /\ Consume

ParseDoctype ==
  /\ NextTokenIs("doctype")
  /\ Consume

ParseFinish ==
  /\ parsePc = "loop"
  /\ tokenIdx > Len(tokenList)
  /\ LET out == ParseReturn(parser, nodes)
     IN  /\ nodes' = out.nodes
         /\ returned' = out.returned
  /\ parsePc' = "done"
  /\ UNCHANGED <<parser, tokenList, tokenIdx, stack, ignored>>
  /\ OnlyParse

\* the token streams: what tokenize can produce, so no two text tokens in a row
TokenPool ==
  { Token("startTag", "div", NoAttrs, <<>>), Token("startTag", "p", NoAttrs, <<>>),
    Token("endTag", "div", NoAttrs, <<>>), Token("endTag", "p", NoAttrs, <<>>),
    Token("selfClosingTag", "br", NoAttrs, <<>>),
    Token("text", "", NoAttrs, <<"t">>), Token("text", "", NoAttrs, <<" ">>),
    Token("comment", "", NoAttrs, <<"c">>), Token("doctype", "", NoAttrs, <<"html">>) }

RECURSIVE TokenLists(_)
TokenLists(k) ==
  IF k = 0 THEN { <<>> }
  ELSE LET shorter == TokenLists(k - 1)
       IN  shorter \cup
           { Append(l, t) : l \in { x \in shorter : Len(x) = k - 1 }, t \in TokenPool }

TokenStreams ==
  { l \in TokenLists(MaxTokens) :
      \A i \in 1..(Len(l) - 1) : ~ (l[i].type = "text" /\ l[i + 1].type = "text") }

ParseInit ==
  /\ parsePc = "loop"
  /\ parser \in Parsers
  /\ tokenList \in TokenStreams
  /\ tokenIdx = 1
  /\ nodes = <<DocumentNode>>
  /\ stack = <<1>>
  /\ ignored = {}
  /\ returned = 0

ParseIdle ==
  /\ parsePc = "idle"
  /\ parser = "parse"
  /\ tokenList = <<>>
  /\ tokenIdx = 1
  /\ nodes = <<DocumentNode>>
  /\ stack = <<1>>
  /\ ignored = {}
  /\ returned = 0

\* the token list without the tokens at the positions in drop
Without(toks, drop) ==
  LET keep == SelectSeq([i \in 1..Len(toks) |-> i], LAMBDA i : i \notin drop)
  IN  [k \in 1..Len(keep) |-> toks[keep[k]]]

\* C7: an end tag that matches no element on the open-element stack changes
\* neither the stack nor the tree and parsing goes on to the next token; and
\* the parser's result is the result for the input without those end tags.
C7_UnmatchedEndTagIgnored ==
  /\ [][( /\ parsePc = "loop"
          /\ tokenIdx <= Len(tokenList)
          /\ tokenList[tokenIdx].type = "endTag"
          /\ NoOpenElement(tokenList[tokenIdx].tagName)
          /\ tokenIdx' # tokenIdx )
        => (stack' = stack /\ nodes' = nodes /\ tokenIdx' = tokenIdx + 1)]_vars
  /\ [](parsePc = "done"
        => [nodes |-> nodes, returned |-> returned]
             = ParseAll(parser, Without(tokenList, ignored)))

\* <div></div></div>: the second </div> comes after the div was closed
C7_Witness ==
  /\ parsePc = "done"
  /\ tokenList = << Token("startTag", "div", NoAttrs, <<>>),
                    Token("endTag", "div", NoAttrs, <<>>),
                    Token("endTag", "div", NoAttrs, <<>>) >>
  /\ ignored = {3}
  /\ returned = 2

\* C8: the parser returns the single top-level element itself exactly when
\* it is root's only child, and the document otherwise; the returned element,
\* or every child of the returned document, has no parent reference.
C8_RootCollapsing ==
  parsePc = "done" =>
    LET children == Children(nodes, 1)
    IN  IF Len(children) = 1 /\ nodes[children[1]].type = "element"
        THEN returned = children[1] /\ nodes[returned].parentRef = 0
        ELSE returned = 1 /\ \A i \in 1..Len(children) : nodes[children[i]].parentRef = 0

(***************************************************************************)
(* The box model (layout/box.ts).  A number is an integer count of         *)
(* hundredths of a pixel, so Px(10) stands for 10 and 1920 for 19.2; the   *)
(* values the model draws keep every product and quotient exact.  A CSS    *)
(* length value is the sequence of its characters.                         *)
(***************************************************************************)
Px(n) == n * 100

Rect(x, y, width, height) == [x |-> x, y |-> y, width |-> width, height |-> height]

EdgeSizes(top, right, bottom, left) ==
  [top |-> top, right |-> right, bottom |-> bottom, left |-> left]

BoxDimensions(content, padding, border, margin) ==
  [content |-> content, padding |-> padding, border |-> border, margin |-> margin]

NoEdges == EdgeSizes(0, 0, 0, 0)

createEmptyBox == BoxDimensions(Rect(0, 0, 0, 0), NoEdges, NoEdges, NoEdges)

paddingBox(box) ==
  Rect(box.content.x - box.padding.left,
       box.content.y - box.padding.top,
       box.content.width + box.padding.left + box.padding.right,
       box.content.height + box.padding.top + box.padding.bottom)

borderBox(box) ==
  LET pBox == paddingBox(box)
  IN  Rect(pBox.x - box.border.left,
           pBox.y - box.border.top,
           pBox.width + box.border.left + box.border.right,
           pBox.height + box.border.top + box.border.bottom)

marginBox(box) ==
  LET bBox == borderBox(box)
  IN  Rect(bBox.x - box.margin.left,
           bBox.y - box.margin.top,
           bBox.width + box.margin.left + box.margin.right,
           bBox.height + box.margin.top + box.margin.bottom)

Digits == <<"0", "1", "2", "3", "4", "5", "6", "7", "8", "9">>

IsDigit(c) == \E k \in DOMAIN Digits : Digits[k] = c

DigitValue(c) == (CHOOSE k \in DOMAIN Digits : Digits[k] = c) - 1

\* the longest prefix of s made of digits
RECURSIVE DigitPrefix(_)
DigitPrefix(s) ==
  IF s # <<>> /\ IsDigit(Head(s)) THEN <<Head(s)>> \o DigitPrefix(Tail(s)) ELSE <<>>

RECURSIVE DigitsValue(_)
DigitsValue(ds) == IF ds = <<>> THEN 0 ELSE DigitsValue(Front(ds)) * 10 + DigitValue(Last(ds))

\* parseFloat: optional sign, digits, optional fraction (two places are kept);
\* nan when the string does not start with a number
parseFloat(str) ==
  LET s        == TrimStart(str)
      negative == s # <<>> /\ Head(s) = "-"
      unsigned == IF s # <<>> /\ Head(s) \in {"-", "+"} THEN Tail(s) ELSE s
      whole    == DigitPrefix(unsigned)
      rest     == SubSeq(unsigned, Len(whole) + 1, Len(unsigned))
      fraction == IF rest # <<>> /\ Head(rest) = "." THEN DigitPrefix(Tail(rest)) ELSE <<>>
      places   == SubSeq(fraction \o <<"0", "0">>, 1, 2)
      value    == DigitsValue(whole) * 100 + DigitsValue(places)
  IN  IF whole = <<>> /\ fraction = <<>> THEN [nan |-> TRUE, val |-> 0]
      ELSE [nan |-> FALSE, val |-> IF negative THEN 0 - value ELSE value]

\* str.endsWith(suffix)
EndsWith(str, suffix) ==
  /\ Len(str) >= Len(suffix)
  /\ SubSeq(str, Len(str) - Len(suffix) + 1, Len(str)) = suffix

\* str.split(/\s+/) on a string of characters
RECURSIVE SplitSpaces(_, _)
SplitSpaces(str, chunk) ==
  IF str = <<>> THEN <<chunk>>
  ELSE IF IsSpace(Head(str))
       THEN <<chunk>> \o SplitSpaces(TrimStart(str), <<>>)
       ELSE SplitSpaces(Tail(str), Append(chunk, Head(str)))

\* F applied to the value of v, which is computed once
With(v, F(_)) == CHOOSE r \in { F(x) : x \in {v} } : TRUE

\* parseLength(value, containerSize, fontSize); an absent value is <<>>.  The
\* values drawn have a number before their unit, so parseFloat is a number
\* where it is returned unchecked.
LengthOf(v, num, containerSize, fontSize) ==
  IF v = <<"0">> \/ v = <<"a", "u", "t", "o">> THEN 0
  ELSE IF EndsWith(v, <<"%">>) THEN (num.val * containerSize) \div 10000
  ELSE IF EndsWith(v, <<"p", "x">>) THEN num.val
  ELSE IF EndsWith(v, <<"e", "m">>) THEN (num.val * fontSize) \div 100
  ELSE IF EndsWith(v, <<"r", "e", "m">>) THEN num.val * 16
  ELSE IF num.nan THEN 0 ELSE num.val

parseLength(value, containerSize, fontSize) ==
  IF value = <<>> THEN 0
  ELSE With(Trim(value),
            LAMBDA v : With(parseFloat(v),
                            LAMBDA num : LengthOf(v, num, containerSize, fontSize)))

EdgesOf(parts, containerSize, fontSize) ==
  LET len(i) == parseLength(parts[i], containerSize, fontSize)
  IN  CASE Len(parts) = 1 -> With(len(1), LAMBDA l : EdgeSizes(l, l, l, l))
        [] Len(parts) = 2 -> EdgeSizes(len(1), len(2), len(1), len(2))
        [] Len(parts) = 3 -> EdgeSizes(len(1), len(2), len(3), len(2))
        [] OTHER          -> EdgeSizes(len(1), len(2), len(3), len(4))

parseEdges(value, containerSize, fontSize) ==
  IF value = <<>> THEN NoEdges
  ELSE With(SplitSpaces(Trim(value), <<>>),
            LAMBDA parts : EdgesOf(parts, containerSize, fontSize))

(***************************************************************************)
(* Block layout (layout/block.ts, layout/index.ts).  A styled tree is the  *)
(* sequence of its StyledNodes in document order, each with the index of   *)
(* its parent; a LayoutNode holds the index of its styled node and, in     *)
(* children, the LayoutNodes below it.  The code fills a box in place; the *)
(* operators return the filled box.                                        *)
(***************************************************************************)
StyledNode(node, styles, parent) == [node |-> node, styles |-> styles, parent |-> parent]

LayoutNode(styledNode, box, children, displayType) ==
  [styledNode |-> styledNode, box |-> box, children |-> children,
   displayType |-> displayType]

\* styles.get(prop) of a length-valued property; <<>> stands for undefined
Get(styles, prop) == IF Has(styles, prop) THEN styles[prop] ELSE <<>>

Auto == <<"a", "u", "t", "o">>

\* a display type the switch has no case for is inline
getDisplayTypeNoNone(styles) ==
  LET display == IF Truthy(GetOr(styles, "display", "")) THEN styles["display"]
                 ELSE "inline"
  IN  IF display \in {"block", "inline-block"} THEN display ELSE "inline"

getDisplayType(styles) ==
  LET display == IF Truthy(GetOr(styles, "display", "")) THEN styles["display"]
                 ELSE "inline"
  IN  IF display \in {"block", "inline-block", "none"} THEN display ELSE "inline"

\* parseLength(styles.get('font-size'), 0, 16) || 16
FontSize(styles) ==
  LET parsed == parseLength(Get(styles, "font-size"), 0, Px(16))
  IN  IF parsed = 0 THEN Px(16) ELSE parsed

calculateBlockWidth(box, styles, containingBlock, fontSize) ==
  LET containerWidth == containingBlock.width
      side(prop)     == parseLength(Get(styles, prop), containerWidth, fontSize)
      marginValue    == Get(styles, "margin")
      paddingValue   == Get(styles, "padding")
      widthValue     == Get(styles, "width")
  IN  With(<< IF marginValue # <<>>
              THEN parseEdges(marginValue, containerWidth, fontSize)
              ELSE EdgeSizes(side("margin-top"), side("margin-right"),
                             side("margin-bottom"), side("margin-left")),
              IF paddingValue # <<>>
              THEN parseEdges(paddingValue, containerWidth, fontSize)
              ELSE EdgeSizes(side("padding-top"), side("padding-right"),
                             side("padding-bottom"), side("padding-left")),
              parseLength(Get(styles, "border-width"), 0, fontSize) >>,
           LAMBDA e :
             LET margin  == e[1]
                 padding == e[2]
                 border  == EdgeSizes(e[3], e[3], e[3], e[3])
                 total   == margin.left + margin.right + border.left + border.right
                              + padding.left + padding.right
                 width   == IF widthValue # <<>> /\ widthValue # Auto
                            THEN parseLength(widthValue, containerWidth, fontSize)
                            ELSE Max(0, containerWidth - total)
             IN  BoxDimensions([box.content EXCEPT !.width = width],
                               padding, border, margin))

\* the sum of the margin-box heights of the layout nodes in children
RECURSIVE ChildrenHeight(_)
ChildrenHeight(children) ==
  IF children = <<>> THEN 0
  ELSE marginBox(Head(children).box).height + ChildrenHeight(Tail(children))

styledNodeHasText(box) == FALSE

calculateBlockHeight(box, styles, children, fontSize) ==
  LET heightValue == Get(styles, "height")
      totalHeight == IF children = <<>> /\ styledNodeHasText(box)
                     THEN (fontSize * 12) \div 10
                     ELSE ChildrenHeight(children)
      height      == IF heightValue # <<>> /\ heightValue # Auto
                     THEN parseLength(heightValue, 0, fontSize)
                     ELSE totalHeight
  IN  [box EXCEPT !.content.height = height]

RECURSIVE layoutBlock(_, _, _)
RECURSIVE layoutInlineBlock(_, _, _)
RECURSIVE LayoutEach(_, _, _, _)

\* the loop of layoutChildren over the styled children kids, from currentY on
LayoutEach(tree, kids, parentBox, currentY) ==
  IF kids = <<>> THEN <<>>
  ELSE LET child       == Head(kids)
           displayType == getDisplayType(tree[child].styles)
           containingBlock == Rect(parentBox.content.x, parentBox.content.y + currentY,
                                   parentBox.content.width, 0)
       IN  IF displayType = "none"
           THEN LayoutEach(tree, Tail(kids), parentBox, currentY)
           ELSE With(IF displayType = "block"
                     THEN layoutBlock(tree, child, containingBlock)
                     ELSE layoutInlineBlock(tree, child, containingBlock),
                     LAMBDA childLayout :
                       <<childLayout>>
                         \o LayoutEach(tree, Tail(kids), parentBox,
                                       IF displayType = "block"
                                       THEN currentY + marginBox(childLayout.box).height
                                       ELSE currentY))

layoutChildren(tree, n, parentBox) == LayoutEach(tree, Children(tree, n), parentBox, 0)

\* box.content.x and box.content.y of layoutBlock
PositionBlock(box, containingBlock) ==
  [box EXCEPT
     !.content.x = containingBlock.x + box.margin.left + box.border.left
                     + box.padding.left,
     !.content.y = containingBlock.y + containingBlock.height + box.margin.top
                     + box.border.top + box.padding.top]

layoutBlock(tree, n, containingBlock) ==
  LET styles      == tree[n].styles
      displayType == getDisplayType(styles)
      fontSize    == FontSize(styles)
  IN  IF displayType = "none"
      THEN LayoutNode(n, createEmptyBox, <<>>, "none")
      ELSE With(calculateBlockWidth(createEmptyBox, styles, containingBlock, fontSize),
                LAMBDA sized :
                  With(PositionBlock(sized, containingBlock),
                       LAMBDA box :
                         With(layoutChildren(tree, n, box),
                              LAMBDA children :
                                LayoutNode(n,
                                           calculateBlockHeight(box, styles, children,
                                                                fontSize),
                                           children, displayType))))

\* the box of layoutInlineBlock before its children are laid out
InlineBox(styles, containingBlock, fontSize) ==
  LET marginValue  == Get(styles, "margin")
      paddingValue == Get(styles, "padding")
      widthValue   == Get(styles, "width")
      heightValue  == Get(styles, "height")
      width        == IF widthValue # <<>> /\ widthValue # Auto
                      THEN parseLength(widthValue, containingBlock.width, fontSize)
                      ELSE Px(100)
      height       == IF heightValue # <<>> /\ heightValue # Auto
                      THEN parseLength(heightValue, 0, fontSize)
                      ELSE (fontSize * 12) \div 10
  IN  With(<< IF marginValue # <<>>
              THEN parseEdges(marginValue, containingBlock.width, fontSize)
              ELSE NoEdges,
              IF paddingValue # <<>>
              THEN parseEdges(paddingValue, containingBlock.width, fontSize)
              ELSE NoEdges >>,
           LAMBDA e :
             BoxDimensions(Rect(containingBlock.x + e[1].left + e[2].left,
                                containingBlock.y + e[1].top + e[2].top,
                                width, height),
                           e[2], NoEdges, e[1]))

layoutInlineBlock(tree, n, containingBlock) ==
  LET styles      == tree[n].styles
      displayType == getDisplayType(styles)
      fontSize    == FontSize(styles)
  IN  With(InlineBox(styles, containingBlock, fontSize),
           LAMBDA box :
             With(layoutChildren(tree, n, box),
                  LAMBDA children :
                    With(ChildrenHeight(children),
                         LAMBDA childrenHeight :
                           LayoutNode(n,
                                      IF childrenHeight > box.content.height
                                      THEN [box EXCEPT !.content.height = childrenHeight]
                                      ELSE box,
                                      children, displayType))))

layoutTree(tree, width) == layoutBlock(tree, 1, Rect(0, 0, width, 0))

(***************************************************************************)
(* The display list (paint/canvas.ts buildDisplayList).  A command also    *)
(* records, in node, the styled node it originates from.                   *)
(***************************************************************************)
PaintCommand(type, node, x, y, width, height, color, detail) ==
  [type |-> type, node |-> node, x |-> x, y |-> y, width |-> width,
   height |-> height, color |-> color, detail |-> detail]

\* a || b for strings
Or(a, b) == IF Truthy(a) THEN a ELSE b

RECURSIVE renderLayoutBox(_, _)
RECURSIVE RenderEach(_, _)
RECURSIVE RenderEachReversed(_, _)

\* the children rendered last child first
RenderEachReversed(tree, children) ==
  IF children = <<>> THEN <<>>
  ELSE RenderEachReversed(tree, Tail(children)) \o renderLayoutBox(tree, Head(children))

RenderEach(tree, children) ==
  IF children = <<>> THEN <<>>
  ELSE renderLayoutBox(tree, Head(children)) \o RenderEach(tree, Tail(children))

renderLayoutBox(tree, layoutBox) ==
  LET styledNode == tree[layoutBox.styledNode]
      styles == styledNode.styles
      box    == layoutBox.box
      bBox   == borderBox(box)
      backgroundColor == Or(GetOr(styles, "background-color", ""),
                            GetOr(styles, "background", ""))
      background ==
        IF Truthy(backgroundColor) /\ backgroundColor # "transparent"
        THEN << PaintCommand("rect", layoutBox.styledNode, bBox.x, bBox.y,
                             bBox.width, bBox.height, backgroundColor, <<>>) >>
        ELSE <<>>
      borderStyle == Get(styles, "border")
      borderParts == SplitSpaces(borderStyle, <<>>)
      parsedWidth == parseFloat(borderParts[1])
      borderWidth == IF parsedWidth.nan \/ parsedWidth.val = 0 THEN Px(1)
                     ELSE parsedWidth.val
      borderColor == IF Len(borderParts) >= 3 /\ borderParts[3] # <<>> THEN borderParts[3]
                     ELSE IF Len(borderParts) >= 2 /\ borderParts[2] # <<>>
                          THEN borderParts[2]
                          ELSE <<"b", "l", "a", "c", "k">>
      border ==
        IF borderStyle # <<>> /\ borderStyle # <<"n", "o", "n", "e">>
        THEN << PaintCommand("border", layoutBox.styledNode, bBox.x, bBox.y,
                             bBox.width, bBox.height, "",
                             <<borderWidth, borderColor>>) >>
        ELSE <<>>
      fontSize    == IF Get(styles, "font-size") # <<>> THEN styles["font-size"]
                     ELSE <<"1", "6", "p", "x">>
      parsedSize  == parseFloat(fontSize)
      fontSizeNum == IF parsedSize.nan \/ parsedSize.val = 0 THEN Px(16)
                     ELSE parsedSize.val
      font        == << Or(GetOr(styles, "font-style", ""), "normal"),
                        Or(GetOr(styles, "font-weight", ""), "normal"),
                        fontSize,
                        Or(GetOr(styles, "font-family", ""), "serif") >>
      text ==
        IF styledNode.node.type = "text" /\ Trim(styledNode.node.textContent) # <<>>
        THEN << PaintCommand("text", layoutBox.styledNode, box.content.x,
                             box.content.y + (fontSizeNum * 8) \div 10, 0, 0,
                             Or(GetOr(styles, "color", ""), "black"),
                             <<styledNode.node.textContent, font>>) >>
        ELSE <<>>
  IN  IF layoutBox.displayType = "none" THEN <<>>
      ELSE background \o border \o text \o RenderEach(tree, layoutBox.children)

\* a list kept between calls: what the previous call returned
LeftoverCommands == pipeOut

\* const commands: PaintCommand[] = []: every call starts a list of its own
NewCommands == <<>>

buildDisplayList(tree, layoutBox) == NewCommands \o renderLayoutBox(tree, layoutBox)

(***************************************************************************)
(* The layout stage: Init draws a styled tree and a viewport width,        *)
(* LayoutTree applies layoutTree and BuildDisplayList builds the display   *)
(* list of the result.  Every style map has the resolver's global          *)
(* defaults under its own declarations.                                    *)
(***************************************************************************)
BaseStyles ==
  ("color" :> "black") @@ ("background" :> "transparent") @@ ("font-family" :> "serif")
    @@ ("font-size" :> <<"1", "6", "p", "x">>) @@ ("font-weight" :> "normal")
    @@ ("font-style" :> "normal") @@ ("display" :> "inline")

PlainBlock == ("display" :> "block") @@ BaseStyles

SolidBlack(width) == width \o <<" ", "s", "o", "l", "i", "d", " ", "b", "l", "a", "c", "k">>

HiddenBox ==
  ("display" :> "none") @@ ("background-color" :> "red")
    @@ ("border" :> SolidBlack(<<"1", "p", "x">>)) @@ ("padding" :> <<"1", "0", "p", "x">>) @@ BaseStyles

NegativePadding ==
  ("display" :> "block") @@ ("padding" :> <<"-", "1", "0", "p", "x">>)
    @@ ("width" :> <<"5", "0", "%">>) @@ ("background-color" :> "blue") @@ BaseStyles

Bordered ==
  ("display" :> "block") @@ ("margin" :> <<"1", "0", "p", "x", " ", "2", "0", "p", "x">>)
    @@ ("border-width" :> <<"2", "p", "x">>) @@ ("border" :> SolidBlack(<<"2", "p", "x">>))
    @@ ("height" :> <<"3", "0", "p", "x">>) @@ BaseStyles

NegativeInline == ("width" :> <<"-", "5", "p", "x">>) @@ ("background" :> "green") @@ BaseStyles

EmBlock ==
  ("display" :> "block") @@ ("font-size" :> <<"2", "e", "m">>) @@ ("margin-top" :> <<"1", "e", "m">>)
    @@ ("height" :> <<"1", ".", "5", "r", "e", "m">>) @@ ("padding-left" :> <<"5", "%">>)
    @@ BaseStyles

InlineBlock ==
  ("display" :> "inline-block") @@ ("width" :> <<"4", "0", "p", "x">>)
    @@ ("height" :> <<"1", "0", "p", "x">>) @@ BaseStyles

ShorthandBorder ==
  ("display" :> "block") @@ ("border" :> SolidBlack(<<"3", "p", "x">>))
    @@ ("background-color" :> "yellow") @@ ("height" :> <<"2", "0", "p", "x">>) @@ BaseStyles

\* a background behind padding and a border of declared width
Framed ==
  ("display" :> "block") @@ ("border-width" :> <<"2", "p", "x">>)
    @@ ("padding" :> <<"5", "p", "x">>) @@ ("background-color" :> "pink")
    @@ ("height" :> <<"2", "0", "p", "x">>) @@ BaseStyles

ElementStyles ==
  { PlainBlock, HiddenBox, NegativePadding, Bordered, NegativeInline, EmBlock, InlineBlock,
    ShorthandBorder, Framed }

RootStyles == { PlainBlock, HiddenBox, Bordered }

LeafStyles == { PlainBlock, HiddenBox, NegativeInline }

TextStyles == { BaseStyles, ("display" :> "none") @@ ("color" :> "red") @@ BaseStyles }

StyledElement(tag, styles, parent) == StyledNode(Element(tag, NoAttrs, parent), styles, parent)

StyledText(styles, parent) == StyledNode(TextNode(<<"t">>, parent), styles, parent)

\* a root with k children; the first child has one child, an element or a text
RECURSIVE StyledTreesOf(_)
StyledTreesOf(k) ==
  IF k = 1
  THEN { << StyledElement("div", r, 0), StyledElement("div", a, 1), g >> :
           r \in RootStyles, a \in ElementStyles,
           g \in { StyledElement("span", e, 2) : e \in LeafStyles }
                   \cup { StyledText(t, 2) : t \in TextStyles } }
  ELSE { Append(tree, StyledElement("p", b, 1)) :
           tree \in StyledTreesOf(k - 1), b \in ElementStyles }

StyledTrees == UNION { StyledTreesOf(k) : k \in 1..MaxChildren }

ViewportWidths == { Px(400), Px(800) }

NoLayout == LayoutNode(0, createEmptyBox, <<>>, "none")

LayoutInit ==
  /\ layPc = "input"
  /\ styledTree \in StyledTrees
  /\ viewportWidth \in ViewportWidths
  /\ layoutRoot = NoLayout
  /\ commands = <<>>

LayoutIdle ==
  /\ layPc = "idle"
  /\ styledTree = <<>>
  /\ viewportWidth = 0
  /\ layoutRoot = NoLayout
  /\ commands = <<>>

LayoutTree ==
  /\ layPc = "input"
  /\ layoutRoot' = layoutTree(styledTree, viewportWidth)
  /\ layPc' = "laid"
  /\ UNCHANGED <<styledTree, viewportWidth, commands>>
  /\ OnlyLayout

BuildDisplayList ==
  /\ layPc = "laid"
  /\ commands' = buildDisplayList(styledTree, layoutRoot)
  /\ layPc' = "painted"
  /\ UNCHANGED <<styledTree, viewportWidth, layoutRoot>>
  /\ OnlyLayout

\* every LayoutNode of the layout tree under layoutNode
RECURSIVE AllLayoutNodes(_)
AllLayoutNodes(layoutNode) ==
  {layoutNode} \cup UNION { AllLayoutNodes(layoutNode.children[i]) :
                              i \in DOMAIN layoutNode.children }

\* styled node n is below styled node a
RECURSIVE IsBelow(_, _, _)
IsBelow(tree, n, a) ==
  /\ tree[n].parent # 0
  /\ (tree[n].parent = a \/ IsBelow(tree, tree[n].parent, a))

\* the node's resolved display is none
Hidden(n) == Has(styledTree[n].styles, "display") /\ styledTree[n].styles["display"] = "none"

C10_BoxesWellFormed ==
  layPc \in {"laid", "painted"} =>
    \A l \in AllLayoutNodes(layoutRoot) :
      /\ l.box.content.width >= 0
      /\ l.box.content.height >= 0
      /\ \A edges \in {l.box.padding, l.box.border, l.box.margin} :
           edges.top >= 0 /\ edges.right >= 0 /\ edges.bottom >= 0 /\ edges.left >= 0

\* C12: within any parent box, the margin-box top of every block-level child
\* is at or below the margin-box bottom of every earlier sibling in the
\* layout children list, whether that sibling is block-level or not.
C12_BlockBelowEarlierSiblings ==
  layPc \in {"laid", "painted"} =>
    \A l \in AllLayoutNodes(layoutRoot) :
      \A i, j \in DOMAIN l.children :
        (i < j /\ l.children[j].displayType = "block") =>
          marginBox(l.children[j].box).y >=
            marginBox(l.children[i].box).y + marginBox(l.children[i].box).height

\* the width and the color of a border shorthand "<w>px solid <color>"
ShorthandWidth(borderStyle) == parseFloat(SplitSpaces(borderStyle, <<>>)[1]).val

ShorthandColor(borderStyle) == SplitSpaces(borderStyle, <<>>)[3]

\* the styled node's border is a shorthand "<w>px solid <color>" with w > 0
HasBorderShorthand(n) ==
  LET borderStyle == Get(styledTree[n].styles, "border")
      parts == SplitSpaces(borderStyle, <<>>)
  IN  /\ Len(parts) = 3
      /\ EndsWith(parts[1], <<"p", "x">>)
      /\ parts[2] = <<"s", "o", "l", "i", "d">>
      /\ ShorthandWidth(borderStyle) > 0

\* the styled node declares no border at all
NoBorderDeclared(n) ==
  /\ Get(styledTree[n].styles, "border") = <<>>
  /\ Get(styledTree[n].styles, "border-width") = <<>>

\* C13: a laid-out element whose border is "<w>px solid <color>" with w > 0
\* has border edges of width w on all four sides and, once the display list
\* is built, a border command of that color; an element that declares no
\* border has no border command.
C13_BorderShorthandLaidOutAndPainted ==
  layPc \in {"laid", "painted"} =>
    \A l \in AllLayoutNodes(layoutRoot) :
      /\ (l.displayType # "none" /\ HasBorderShorthand(l.styledNode)) =>
           LET borderStyle == styledTree[l.styledNode].styles["border"]
               w == ShorthandWidth(borderStyle)
           IN  /\ l.box.border = EdgeSizes(w, w, w, w)
               /\ layPc = "painted" =>
                    \E i \in DOMAIN commands :
                      /\ commands[i].type = "border"
                      /\ commands[i].node = l.styledNode
                      /\ commands[i].detail[2] = ShorthandColor(borderStyle)
      /\ (layPc = "painted" /\ NoBorderDeclared(l.styledNode)) =>
           \A i \in DOMAIN commands :
             ~ (commands[i].type = "border" /\ commands[i].node = l.styledNode)

\* the styled nodes of the layout tree under layoutNode, a node before its
\* children and the children in layout order
RECURSIVE LayoutOrder(_)
RECURSIVE LayoutOrderEach(_)
LayoutOrderEach(children) ==
  IF children = <<>> THEN <<>>
  ELSE LayoutOrder(Head(children)) \o LayoutOrderEach(Tail(children))

LayoutOrder(layoutNode) == <<layoutNode.styledNode>> \o LayoutOrderEach(layoutNode.children)

\* where styled node n stands in the sequence order
PlaceIn(order, n) == CHOOSE k \in DOMAIN order : order[k] = n

\* background, then border, then text
PaintRank(type) == CASE type = "rect" -> 1 [] type = "border" -> 2 [] type = "text" -> 3

\* C14: in the display list the commands of one node come in the order
\* background rect, border, text; all of them come before every command of
\* the node's descendants, and the subtrees of siblings come in layout
\* order: a command comes before another exactly when its node is earlier in
\* the layout tree, parents first, or it is an earlier command of the same node.
C14_DisplayListOrder ==
  layPc = "painted" =>
    LET order == LayoutOrder(layoutRoot)
    IN  \A i, j \in DOMAIN commands :
          i < j =>
            \/ PlaceIn(order, commands[i].node) < PlaceIn(order, commands[j].node)
            \/ /\ commands[i].node = commands[j].node
               /\ PaintRank(commands[i].type) < PaintRank(commands[j].type)

\* an element with a background and a border, its text child, and a later
\* sibling with a background: rect, border, text, rect
C14_Witness ==
  /\ layPc = "painted"
  /\ Len(commands) >= 4
  /\ commands[1].type = "rect" /\ commands[1].node = 2
  /\ commands[2].type = "border" /\ commands[2].node = 2
  /\ commands[3].type = "text" /\ commands[3].node = 3
  /\ commands[4].type = "rect" /\ commands[4].node = 4

\* selectors that match no node of DomTrees
UnmatchedSelectors == {Sel("id", "x"), Sel("class", "zz"), Sel("tag", "p")}

\* the stylesheet with one more selector in the list of rule i
WithSelector(stylesheet, i, selector) ==
  [stylesheet EXCEPT ![i].selectors = Append(@, selector)]

\* C24: adding to the selector list of a rule a selector that does not match
\* a node (here: that matches no node of the tree) leaves the resolved
\* property map of that node as it is: only the selectors of the list that
\* match the node count for the rule's specificity.
C24_UnmatchedSelectorChangesNothing ==
  stylePc = "styled" =>
    \A i \in DOMAIN sheet : \A selector \in UnmatchedSelectors :
      LET restyled == styleTree(dom, WithSelector(sheet, i, selector))
      IN  \A n \in DOMAIN dom :
            ~ matches(dom[n], selector) => restyled[n] = styled[n]

\* the stack position of the topmost open element above root with the tag name
TopmostOpen(tagName) ==
  CHOOSE i \in 2..Len(stack) :
    /\ nodes[stack[i]].tagName = tagName
    /\ \A j \in (i + 1)..Len(stack) : nodes[stack[j]].tagName # tagName

\* C25: all through the token loop the document root is the bottom of the
\* open-element stack and every element on the stack is a child of the one
\* directly below it; an end tag with an open element of its name truncates
\* the stack to just below the topmost such element, which leaves the parent
\* of that element on top; and every node a token adds is appended to the
\* element on top of the stack.
C25_StackShape ==
  /\ [](/\ Len(stack) >= 1
        /\ stack[1] = 1
        /\ nodes[1].type = "document"
        /\ \A i \in 2..Len(stack) :
             /\ nodes[stack[i]].type = "element"
             /\ nodes[stack[i]].parent = stack[i - 1])
  /\ [][( /\ parsePc = "loop"
          /\ tokenIdx <= Len(tokenList)
          /\ tokenIdx' # tokenIdx )
        => /\ ( tokenList[tokenIdx].type = "endTag"
                /\ ~ NoOpenElement(tokenList[tokenIdx].tagName) )
              => LET i == TopmostOpen(tokenList[tokenIdx].tagName)
                 IN  /\ stack' = SubSeq(stack, 1, i - 1)
                     /\ Last(stack') = nodes[stack[i]].parent
                     /\ nodes' = nodes
           /\ \A n \in (Len(nodes) + 1)..Len(nodes') :
                nodes'[n].parent = Last(stack)]_vars

\* <div><p></div>: the end tag closed the p above the div as well
C25_Witness ==
  /\ tokenList = << Token("startTag", "div", NoAttrs, <<>>),
                    Token("startTag", "p", NoAttrs, <<>>),
                    Token("endTag", "div", NoAttrs, <<>>) >>
  /\ tokenIdx = 4
  /\ Len(nodes) = 3
  /\ stack = <<1>>

\* the positions of the comment and doctype tokens
Dropped(toks) == { i \in DOMAIN toks : toks[i].type \in {"comment", "doctype"} }

\* C26: the tree the parser returns holds document, element and text nodes
\* only, and it is, with the same returned root, what the parser returns for
\* the tokens without the comment and doctype tokens (compared where taking
\* them out leaves no two text tokens in a row, as the tokenizer never
\* produces two).
C26_CommentsAndDoctypeLeaveNoNode ==
  parsePc = "done" =>
    /\ \A n \in DOMAIN nodes : nodes[n].type \in {"document", "element", "text"}
    /\ Without(tokenList, Dropped(tokenList)) \in TokenStreams
         => [nodes |-> nodes, returned |-> returned]
              = ParseAll(parser, Without(tokenList, Dropped(tokenList)))

\* the background of styled node n, "" when none is set
BackgroundOf(n) ==
  Or(GetOr(styledTree[n].styles, "background-color", ""),
     GetOr(styledTree[n].styles, "background", ""))

\* the background commands of the display list that come from styled node n
BackgroundCommands(n) ==
  { i \in DOMAIN commands : commands[i].type = "rect" /\ commands[i].node = n }

\* C27: a displayed node whose background is set and not transparent has one
\* background command, and its rectangle is the padding box of the node: the
\* content rectangle grown by the padding only; a node whose background is
\* unset or transparent has no background command.
C27_BackgroundAtPaddingBox ==
  layPc = "painted" =>
    \A l \in AllLayoutNodes(layoutRoot) :
      l.displayType # "none" =>
        IF Truthy(BackgroundOf(l.styledNode)) /\ BackgroundOf(l.styledNode) # "transparent"
        THEN /\ Cardinality(BackgroundCommands(l.styledNode)) = 1
             /\ \A i \in BackgroundCommands(l.styledNode) :
                  Rect(commands[i].x, commands[i].y, commands[i].width, commands[i].height)
                    = paddingBox(l.box)
        ELSE BackgroundCommands(l.styledNode) = {}

LengthValues ==
  { <<>>,                                   \* a missing value
    <<"0">>, <<"1","2">>, <<"1","0","p","x">>, <<"-","5","p","x">>,
    <<"5","0","%">>, <<"2","5","%">>,
    <<"2","e","m">>, <<"1",".","5","e","m">>,
    <<"2","r","e","m">>, <<"1",".","5","r","e","m">>,
    <<"a","u","t","o">>, <<"n","o","n","e">>,
    <<" ","1","0","p","x"," ">> }

ContainerSizes == {0, Px(200), Px(400)}

FontSizes == {Px(10), Px(16), Px(32)}

LenInit ==
  /\ lenPc = "input"
  /\ lenValue \in LengthValues
  /\ lenContainer \in ContainerSizes
  /\ lenFont \in FontSizes
  /\ lenOut = 0

LenIdle ==
  /\ lenPc = "idle"
  /\ lenValue = <<>>
  /\ lenContainer = 0
  /\ lenFont = Px(16)
  /\ lenOut = 0

ParseLength ==
  /\ lenPc = "input"
  /\ lenOut' = parseLength(lenValue, lenContainer, lenFont)
  /\ lenPc' = "done"
  /\ UNCHANGED <<lenValue, lenContainer, lenFont>>
  /\ OnlyLen

\* the length the value stands for: rem against the fixed 16px root size,
\* em against the font size, % against the reference size
ResolvedLength(value, containerSize, fontSize) ==
  IF value = <<>> THEN 0
  ELSE LET v == Trim(value)
           num == parseFloat(v)
       IN IF v = <<"a","u","t","o">> \/ v = <<"n","o","n","e">> THEN 0
          ELSE IF EndsWith(v, <<"%">>) THEN (num.val * containerSize) \div 10000
          ELSE IF EndsWith(v, <<"r","e","m">>) THEN num.val * 16
          ELSE IF EndsWith(v, <<"e","m">>) THEN (num.val * fontSize) \div 100
          ELSE IF num.nan THEN 0 ELSE num.val

\* C11: parseLength gives every value the length its unit stands for: px the
\* literal number, % that fraction of the reference size, em times the font
\* size, rem times the fixed 16px root size whatever the font size is, a bare
\* number as pixels, and 0 for auto, none and a missing value.
C11_UnitsResolved ==
  lenPc = "done" => lenOut = ResolvedLength(lenValue, lenContainer, lenFont)

(***************************************************************************)
(* The pipeline stage: getDisplayList called again and again (render.ts).  *)
(* The html string is given as the token sequence tokenize makes of it and *)
(* the css string as the stylesheet parseCSS makes of it.  A style value   *)
(* is one string in the program; the resolver's definitions above hold it *)
(* as a whole and the layout's as a sequence of characters, and CssChars   *)
(* takes the first form to the second.                                     *)
(***************************************************************************)
MaxRuns == 2           \* calls of getDisplayList in one behaviour

\* the tree parseHTML returned: all of the nodes, or the single element
\* child of the document root with everything below it
DomOf(parsed) ==
  IF parsed.returned = 1 THEN parsed.nodes
  ELSE [i \in 1..(Len(parsed.nodes) - 1) |->
          [parsed.nodes[i + 1] EXCEPT !.parent = @ - 1,
                                      !.parentRef = IF @ = 0 THEN 0 ELSE @ - 1]]

LengthProperties ==
  { "margin", "margin-top", "margin-right", "margin-bottom", "margin-left",
    "padding", "padding-top", "padding-right", "padding-bottom", "padding-left",
    "width", "height", "font-size", "border-width", "border" }

CssChars(value) ==
  CASE value = "16px" -> <<"1", "6", "p", "x">>
    [] value = "10px" -> <<"1", "0", "p", "x">>
    [] value = "20px" -> <<"2", "0", "p", "x">>
    [] value = "1em"  -> <<"1", "e", "m">>
    [] value = "2px solid red" -> <<"2", "p", "x", " ", "s", "o", "l", "i", "d", " ", "r", "e", "d">>

\* the StyledNode tree styleTree returns: one StyledNode per DOM node
StyledTreeOf(tree, stylesheet) ==
  With(styleTree(tree, stylesheet),
       LAMBDA maps :
         [n \in 1..Len(tree) |->
            StyledNode(tree[n],
                       [q \in DOMAIN maps[n] |->
                          IF q \in LengthProperties THEN CssChars(maps[n][q])
                          ELSE maps[n][q]],
                       tree[n].parent)])

getDisplayList(tokenStream, stylesheet, width) ==
  With(StyledTreeOf(DomOf(ParseAll("parse", tokenStream)), stylesheet),
       LAMBDA tree :
         With(layoutTree(tree, width), LAMBDA root : buildDisplayList(tree, root)))

\* <div>t</div>, <div><p>t</p></div> and <p>t</p><br/>
Documents ==
  { << Token("startTag", "div", NoAttrs, <<>>), Token("text", "", NoAttrs, <<"t">>),
       Token("endTag", "div", NoAttrs, <<>>) >>,
    << Token("startTag", "div", NoAttrs, <<>>), Token("startTag", "p", NoAttrs, <<>>),
       Token("text", "", NoAttrs, <<"t">>), Token("endTag", "p", NoAttrs, <<>>),
       Token("endTag", "div", NoAttrs, <<>>) >>,
    << Token("startTag", "p", NoAttrs, <<>>), Token("text", "", NoAttrs, <<"t">>),
       Token("endTag", "p", NoAttrs, <<>>),
       Token("selfClosingTag", "br", NoAttrs, <<>>) >> }

Stylesheets ==
  { <<>>,
    << Rule(<<Sel("tag", "div")>>, <<Decl("background", "red"), Decl("padding", "10px")>>) >>,
    << Rule(<<Sel("tag", "p")>>, <<Decl("border", "2px solid red"), Decl("height", "20px")>>),
       Rule(<<Sel("tag", "div")>>, <<Decl("background-color", "blue")>>) >> }

Call(tokenStream, stylesheet, width) ==
  [html |-> tokenStream, css |-> stylesheet, width |-> width]

Calls == { Call(d, sh, w) : d \in Documents, sh \in Stylesheets, w \in ViewportWidths }

PipeInit ==
  /\ pipePc = "call"
  /\ pipeCall \in Calls
  /\ pipeOut = <<>>
  /\ pipeLog = <<>>

PipeIdle ==
  /\ pipePc = "idle"
  /\ pipeCall = Call(<<>>, <<>>, 0)
  /\ pipeOut = <<>>
  /\ pipeLog = <<>>

\* one call of getDisplayList; pipeLog records what it was given and returned
GetDisplayList ==
  /\ pipePc = "call"
  /\ pipeOut' = getDisplayList(pipeCall.html, pipeCall.css, pipeCall.width)
  /\ pipeLog' = Append(pipeLog, [call |-> pipeCall, list |-> pipeOut'])
  /\ pipePc' = "returned"
  /\ UNCHANGED pipeCall
  /\ OnlyPipe

\* the caller goes on to its next call, with any inputs
NextCall ==
  /\ pipePc = "returned"
  /\ Len(pipeLog) < MaxRuns
  /\ pipeCall' \in Calls
  /\ pipePc' = "call"
  /\ UNCHANGED <<pipeOut, pipeLog>>
  /\ OnlyPipe

MaxRenders == 2        \* calls of render in one behaviour

RenderCall(call, stageThrows, hasContext) ==
  [call |-> call, stageThrows |-> stageThrows, hasContext |-> hasContext]

RenderCalls ==
  { RenderCall(c, t, h) :
      c \in { k \in Calls : k.width = Px(400) /\ Len(k.css) < 2 },
      t \in BOOLEAN, h \in BOOLEAN }

RenderInit ==
  /\ renPc = "stages"
  /\ renCall \in RenderCalls
  /\ renList = <<>>
  /\ renNext = 1
  /\ surface = <<>>
  /\ renOps = <<>>
  /\ renBefore = <<>>
  /\ renCount = 1

RenderIdle ==
  /\ renPc = "idle"
  /\ renCall = RenderCall(Call(<<>>, <<>>, 0), FALSE, FALSE)
  /\ renList = <<>>
  /\ renNext = 1
  /\ surface = <<>>
  /\ renOps = <<>>
  /\ renBefore = <<>>
  /\ renCount = 1

\* steps 1 to 5 of render: an exception of a stage leaves render at once
RenderStages ==
  /\ renPc = "stages"
  /\ IF renCall.stageThrows
     THEN /\ renPc' = "threw"
          /\ UNCHANGED renList
     ELSE /\ renList' = getDisplayList(renCall.call.html, renCall.call.css,
                                       renCall.call.width)
          /\ renPc' = "painter"
  /\ UNCHANGED <<renCall, renNext, surface, renOps, renBefore, renCount>>
  /\ OnlyRender

\* the constructor went on without asking whether it was given a context
PainterUnchecked == TRUE

\* new Painter(canvas): if (!ctx) throw
PainterHasContext == renCall.hasContext

NewPainter ==
  /\ renPc = "painter"
  /\ renPc' = IF PainterHasContext THEN "clear" ELSE "threw"
  /\ UNCHANGED <<renCall, renList, renNext, surface, renOps, renBefore, renCount>>
  /\ OnlyRender

\* painter.clear(): clearRect over the whole canvas
PainterClear ==
  /\ renPc = "clear"
  /\ surface' = <<>>
  /\ renOps' = Append(renOps, "clear")
  /\ renNext' = 1
  /\ renPc' = "draw"
  /\ UNCHANGED <<renCall, renList, renBefore, renCount>>
  /\ OnlyRender

\* execute draws a command only if the fields it needs are truthy
Draws(command) ==
  CASE command.type = "rect" ->
         command.width # 0 /\ command.height # 0 /\ Truthy(command.color)
    [] command.type = "text" ->
         command.detail[1] # <<>> /\ Truthy(command.color)
    [] command.type = "border" ->
         /\ command.width # 0 /\ command.height # 0
         /\ command.detail[2] # <<>> /\ command.detail[1] # 0

\* one turn of the loop: painter.execute(command)
PainterExecute ==
  /\ renPc = "draw"
  /\ renNext <= Len(renList)
  /\ IF Draws(renList[renNext])
     THEN /\ surface' = Append(surface, renList[renNext])
          /\ renOps' = Append(renOps, renNext)
     ELSE UNCHANGED <<surface, renOps>>
  /\ renNext' = renNext + 1
  /\ UNCHANGED <<renPc, renCall, renList, renBefore, renCount>>
  /\ OnlyRender

RenderReturn ==
  /\ renPc = "draw"
  /\ renNext > Len(renList)
  /\ renPc' = "returned"
  /\ UNCHANGED <<renCall, renList, renNext, surface, renOps, renBefore, renCount>>
  /\ OnlyRender

\* the caller, after the call returned or threw, calls render again
RenderAgain ==
  /\ renPc \in {"returned", "threw"}
  /\ renCount < MaxRenders
  /\ renCall' \in RenderCalls
  /\ renCount' = renCount + 1
  /\ renBefore' = surface
  /\ renOps' = <<>>
  /\ renList' = <<>>
  /\ renNext' = 1
  /\ renPc' = "stages"
  /\ UNCHANGED surface
  /\ OnlyRender

\* the commands of list that execute draws, as indices, in order
DrawnOf(list) == SelectSeq([i \in 1..Len(list) |-> i], LAMBDA i : Draws(list[i]))

IsPrefix(s, t) == Len(s) <= Len(t) /\ \A i \in DOMAIN s : s[i] = t[i]

\* C16: a call of render whose canvas gives no 2D context, or in which a
\* stage before painting throws, ends by throwing, and at no point has it
\* cleared the surface or drawn on it: the surface holds what it held when
\* the call began.  In any other call the surface operations are one clear
\* followed by the drawn commands in display-list order, all of them by the
\* time the call returns.
C16_FailedRenderLeavesSurface ==
  /\ (renPc # "idle" /\ (renCall.stageThrows \/ ~ renCall.hasContext)) =>
       /\ renOps = <<>>
       /\ surface = renBefore
       /\ renPc \in {"stages", "painter", "threw"}
  /\ renPc = "threw" => (renCall.stageThrows \/ ~ renCall.hasContext)
  /\ renPc \in {"draw", "returned"} =>
       /\ IsPrefix(renOps, <<"clear">> \o DrawnOf(renList))
       /\ renOps # <<>>
       /\ surface = [i \in 1..(Len(renOps) - 1) |-> renList[renOps[i + 1]]]
  /\ renPc = "returned" => renOps = <<"clear">> \o DrawnOf(renList)

\* a call that threw for want of a context, after a call that painted
C16_Witness ==
  /\ renPc = "threw"
  /\ ~ renCall.hasContext
  /\ ~ renCall.stageThrows
  /\ renCount = 2
  /\ Len(surface) >= 2

(***************************************************************************)
(* The matcher stage: matches applied to one node and one selector.        *)
(***************************************************************************)
\* class attributes: absent, "a", "a b", " a", "a " and the empty string
ClassAttrs ==
  { AttrMap({}), Attrs(<<"a">>, "", <<>>), Attrs(<<"a", " ", "b">>, "", <<>>),
    Attrs(<<" ", "a">>, "", <<>>), Attrs(<<"a", " ">>, "", <<>>), AttrMap({"class"}) }

MatchNodes ==
  { Element(tag, [attrs EXCEPT !.id = id,
                               !.has = @ \cup (IF id = "" THEN {} ELSE {"id"})], 0) :
      tag \in {"div", "span"}, attrs \in ClassAttrs, id \in {"", "main"} }
    \cup { TextNode(<<"t">>, 0), CommentNode(<<"c">>, 0), DocumentNode }

\* what parseSelector can return for one simple selector: "." gives the
\* class selector with the empty name
SimpleSelectors ==
  { Sel("universal", "*"), Sel("tag", "div"), Sel("tag", "span"),
    Sel("class", "a"), Sel("class", "b"), Sel("class", "c"), Sel("class", ""),
    Sel("id", "main"), Sel("id", "x") }

MatchSelectors ==
  SimpleSelectors
    \cup { Compound("", <<t, s>>) :
             t \in { Sel("tag", "div"), Sel("class", "b") },
             s \in { Sel("class", "a"), Sel("id", "main"), Sel("class", "c") } }

MatchInit ==
  /\ matchPc = "input"
  /\ matchNode \in MatchNodes
  /\ matchSel \in MatchSelectors
  /\ matchOut = FALSE

MatchIdle ==
  /\ matchPc = "idle"
  /\ matchNode = DocumentNode
  /\ matchSel = Sel("universal", "*")
  /\ matchOut = FALSE

Matches ==
  /\ matchPc = "input"
  /\ matchOut' = matches(matchNode, matchSel)
  /\ matchPc' = "done"
  /\ UNCHANGED <<matchNode, matchSel>>
  /\ OnlyMatch

\* the whitespace-separated tokens of the class attribute
ClassTokens(node) ==
  IF "class" \in node.attributes.has
  THEN { node.attributes.class[i] : i \in DOMAIN node.attributes.class } \ {" "}
  ELSE {}

\* what a selector selects, as the contract of matches words it
RECURSIVE Selects(_, _)
Selects(node, selector) ==
  /\ node.type = "element"
  /\ CASE selector.type = "universal" -> TRUE
       [] selector.type = "tag" -> node.tagName = selector.value
       [] selector.type = "class" -> selector.value \in ClassTokens(node)
       [] selector.type = "id" ->
            "id" \in node.attributes.has /\ node.attributes.id = selector.value
       [] selector.type = "compound" ->
            \A i \in DOMAIN selector.parts : Selects(node, selector.parts[i])

\* C17: matches is false for every node that is not an element; for an
\* element it is true for the universal selector, for a tag selector iff the
\* tag names are equal, for a class selector iff the class is one of the
\* whitespace-separated tokens of the class attribute, for an id selector
\* iff the id attribute is equal, and for a compound selector iff every part
\* matches the element.
C17_MatchesAsSpecified ==
  matchPc = "done" => (matchOut <=> Selects(matchNode, matchSel))

(***************************************************************************)
(* The Cookie Jar (utils/cookieJar.ts).  localStorage holds, under the key *)
(* 'cookie-jar', either nothing or the JSON text of an array of entries;   *)
(* the text is given as the sequence of the objects it describes.  An      *)
(* object is a function from its keys.  Times are counted in minutes, not  *)
(* in milliseconds: a number of milliseconds is a double in the program    *)
(* and never overflows, and a month of them is beyond TLC's integers.      *)
(***************************************************************************)
MaxCalls == 4          \* calls of the Cookie Jar functions and clock advances

EXPIRY_DAYS == 7

\* EXPIRY_DAYS * 24 * 60 * 60 * 1000 milliseconds, in minutes
EXPIRY_MS == EXPIRY_DAYS * 24 * 60

\* the value undefined; no string of the model is spelled like it
Undefined == "undefined"

NoItem == [present |-> FALSE, text |-> <<>>]

Item(text) == [present |-> TRUE, text |-> text]

\* JSON.stringify of an array of objects leaves out the keys whose value is
\* undefined, and favicon is the one key of an entry that can be so;
\* JSON.parse gives the objects of the text
JSONstringify(entries) ==
  [i \in DOMAIN entries |->
     [k \in {q \in DOMAIN entries[i] : ~ (q = "favicon" /\ entries[i][q] = Undefined)} |->
        entries[i][k]]]

JSONparse(text) == text

getJar(item) == IF ~ item.present THEN <<>> ELSE JSONparse(item.text)

saveJar(entries) == Item(JSONstringify(entries))

\* what a call returns: null, an entry or an array of entries
Returned(kind, value) == [kind |-> kind, value |-> value]

ReturnedNull == Returned("null", <<>>)

Breadcrumb(url, title, timestamp) == [url |-> url, title |-> title, timestamp |-> timestamp]

\* the entry addToJar makes; random stands for Math.random's digits
JarEntry(nowMs, random, url, title, favicon, breadcrumbs) ==
  [id |-> <<"jar", nowMs, random>>, url |-> url,
   title |-> IF Truthy(title) THEN title ELSE "Untitled",
   favicon |-> favicon, closedAt |-> nowMs, expiresAt |-> nowMs + EXPIRY_MS,
   breadcrumbs |-> breadcrumbs]

\* what addToJar leaves in localStorage: jar.unshift(entry); saveJar(jar)
addToJar(item, entry) == saveJar(<<entry>> \o getJar(item))

\* jar.findIndex(entry => entry.id === id), 0 for -1
FindIndex(jar, id) ==
  IF \E i \in DOMAIN jar : jar[i].id = id
  THEN CHOOSE i \in DOMAIN jar : jar[i].id = id /\ \A j \in 1..(i - 1) : jar[j].id # id
  ELSE 0

\* splicing out the last entry, whatever the index
SpliceLast(jar, index) == SubSeq(jar, 1, Len(jar) - 1)

\* jar.splice(index, 1)
SpliceOut(jar, index) == SubSeq(jar, 1, index - 1) \o SubSeq(jar, index + 1, Len(jar))

restoreFromJar(item, id) ==
  LET jar   == getJar(item)
      index == FindIndex(jar, id)
  IN  IF index = 0 THEN [item |-> item, result |-> ReturnedNull]
      ELSE [item |-> saveJar(SpliceOut(jar, index)),
            result |-> Returned("entry", jar[index])]

cleanExpired(item, nowMs) ==
  LET jar            == getJar(item)
      validEntries   == SelectSeq(jar, LAMBDA entry : entry.expiresAt > nowMs)
      expiredEntries == SelectSeq(jar, LAMBDA entry : entry.expiresAt <= nowMs)
  IN  [item |-> IF Len(expiredEntries) > 0 THEN saveJar(validEntries) ELSE item,
       result |-> Returned("entries", expiredEntries)]

\* what a caller may close: a page with a title, an icon and a trail, and a
\* page with none of them
ClosedPages ==
  { [url |-> "https://a.example", title |-> "A", favicon |-> "a.png",
     breadcrumbs |-> << Breadcrumb("https://a.example", "A", 0) >>],
    [url |-> "https://b.example", title |-> "", favicon |-> Undefined,
     breadcrumbs |-> <<>>] }

Randoms == {"k3x", "q9z"}

JarCall(op, id) == [op |-> op, id |-> id]

JarInit ==
  /\ localStorage = NoItem
  /\ jarNow = 0
  /\ jarCall = JarCall("none", <<>>)
  /\ jarOut = ReturnedNull
  /\ jarCalls = 0

JarIdle ==
  /\ localStorage = NoItem
  /\ jarNow = -1
  /\ jarCall = JarCall("none", <<>>)
  /\ jarOut = ReturnedNull
  /\ jarCalls = 0

JarStep(op, id) ==
  /\ jarNow >= 0
  /\ jarCalls < MaxCalls
  /\ jarCalls' = jarCalls + 1
  /\ jarCall' = JarCall(op, id)
  /\ OnlyJar

AddToJar ==
  \E page \in ClosedPages, random \in Randoms :
    LET entry == JarEntry(jarNow, random, page.url, page.title, page.favicon,
                          page.breadcrumbs)
    IN  /\ JarStep("addToJar", entry.id)
        /\ localStorage' = addToJar(localStorage, entry)
        /\ jarOut' = Returned("entry", entry)
        /\ UNCHANGED jarNow

\* with the id of an entry of the jar, or with an id no entry has
RestoreFromJar ==
  \E id \in { getJar(localStorage)[i].id : i \in DOMAIN getJar(localStorage) }
              \cup { <<"non-existent-id">> } :
    /\ JarStep("restoreFromJar", id)
    /\ localStorage' = restoreFromJar(localStorage, id).item
    /\ jarOut' = restoreFromJar(localStorage, id).result
    /\ UNCHANGED jarNow

CleanExpired ==
  /\ JarStep("cleanExpired", <<>>)
  /\ localStorage' = cleanExpired(localStorage, jarNow).item
  /\ jarOut' = cleanExpired(localStorage, jarNow).result
  /\ UNCHANGED jarNow

GetJar ==
  /\ JarStep("getJar", <<>>)
  /\ jarOut' = Returned("entries", getJar(localStorage))
  /\ UNCHANGED <<localStorage, jarNow>>

\* the clock goes on by the least amount or by a week
ClockAdvance ==
  \E d \in {1, EXPIRY_MS} :
    /\ JarStep("clock", <<>>)
    /\ jarNow' = jarNow + d
    /\ UNCHANGED <<localStorage, jarOut>>

\* C18: restoreFromJar with an id of the jar takes exactly one entry with
\* that id out of the jar and returns it, every other entry staying where
\* it was relative to the others; with an id that is not in the jar it
\* returns null and leaves localStorage as it was.
C18_RestoreRemovesOnlyThatEntry ==
  [][ jarCall'.op = "restoreFromJar" =>
        LET before == getJar(localStorage)
            after  == getJar(localStorage')
            id     == jarCall'.id
        IN  IF \E i \in DOMAIN before : before[i].id = id
            THEN \E i \in DOMAIN before :
                   /\ before[i].id = id
                   /\ jarOut' = Returned("entry", before[i])
                   /\ Len(after) = Len(before) - 1
                   /\ \A k \in DOMAIN after :
                        after[k] = IF k < i THEN before[k] ELSE before[k + 1]
            ELSE /\ jarOut' = ReturnedNull
                 /\ localStorage' = localStorage ]_vars

\* the middle one of three entries was restored
C18_Witness ==
  /\ jarCall.op = "restoreFromJar"
  /\ jarOut.kind = "entry"
  /\ Len(getJar(localStorage)) = 2
  /\ getJar(localStorage)[1].closedAt >= jarOut.value.closedAt
  /\ getJar(localStorage)[2].closedAt <= jarOut.value.closedAt
  /\ getJar(localStorage)[1].id # jarOut.value.id
  /\ getJar(localStorage)[2].id # jarOut.value.id
  /\ getJar(localStorage)[1].url # getJar(localStorage)[2].url

\* C19: closed tabs expire after 7 days: whatever addToJar, restoreFromJar
\* and the clock did before, no entry that getJar returns has an expiresAt
\* at or before the current time.
C19_GetJarHasNoExpiredEntry ==
  jarCall.op = "getJar" =>
    \A i \in DOMAIN jarOut.value : jarOut.value[i].expiresAt > jarNow

(***************************************************************************)
(* The application stage: the tab handlers of App.tsx over the tab list,   *)
(* the breadcrumb trails of breadcrumbs.ts and the Cookie Jar of           *)
(* cookieJar.ts.  The clock counts minutes, as in the jar stage; a tab id  *)
(* is the decimal text of the clock, as Date.now().toString() makes it,    *)
(* and two handlers that run at one clock value read the same value.       *)
(* currentUrl, internalPage and the BrowserView are left out: no handler   *)
(* modelled here reads them.                                               *)
(***************************************************************************)
MaxEvents == 4

NewTabUrl == "cookie://newtab"

InternalUrls == {NewTabUrl, "cookie://jar"}

ExternalUrls == {"https://a.example"}

\* the titles a page can report, the empty one included
PageTitles == {"A", ""}

parseInternalUrl(url) ==
  CASE url = "cookie://newtab"    -> "newtab"
    [] url = "cookie://bookmarks" -> "bookmarks"
    [] url = "cookie://history"   -> "history"
    [] url = "cookie://settings"  -> "settings"
    [] url = "cookie://jar"       -> "jar"
    [] OTHER                      -> "null"

getInternalPageTitle(page) ==
  CASE page = "newtab"    -> "New Tab"
    [] page = "bookmarks" -> "Bookmarks"
    [] page = "history"   -> "History"
    [] page = "settings"  -> "Settings"
    [] page = "jar"       -> "Cookie Jar"
    [] OTHER              -> "Cookie Browser"

Tab(id, title, url, favicon) == [id |-> id, title |-> title, url |-> url, favicon |-> favicon]

HistoryEntry(url, title) == [url |-> url, title |-> title]

\* Date.now().toString()
DateNowString(nowMs) == ToString(nowMs)

\* trails.get(tabId) || []
getTrail(map, tabId) == GetOr(map, tabId, <<>>)

\* addCrumb that appends whatever the last crumb is
addCrumbAlways(map, tabId, url, title, nowMs) ==
  Put(map, tabId,
      Append(getTrail(map, tabId),
             Breadcrumb(url, IF Truthy(title) THEN title ELSE "Untitled", nowMs)))

\* the trails map after addCrumb(tabId, url, title) at nowMs
addCrumb(map, tabId, url, title, nowMs) ==
  LET trail == getTrail(map, tabId)
  IN  IF Len(trail) > 0 /\ trail[Len(trail)].url = url
      THEN IF trail[Len(trail)].title # title
           THEN Put(map, tabId, [trail EXCEPT ![Len(trail)].title = title])
           ELSE map
      ELSE Put(map, tabId,
               Append(trail, Breadcrumb(url, IF Truthy(title) THEN title ELSE "Untitled",
                                        nowMs)))

\* trails.delete(tabId)
clearTrail(map, tabId) == [id \in (DOMAIN map) \ {tabId} |-> map[id]]

\* trails.set(tabId, [...crumbs])
setTrail(map, tabId, crumbs) == Put(map, tabId, crumbs)

\* [...(trails.get(tabId) || [])]
exportTrail(map, tabId) == getTrail(map, tabId)

\* tabs.find(t => t.id === tabId), 0 when there is none
TabIndex(list, tabId) ==
  IF \E i \in DOMAIN list : list[i].id = tabId
  THEN CHOOSE i \in DOMAIN list : list[i].id = tabId /\ \A j \in 1..(i - 1) : list[j].id # tabId
  ELSE 0

TabIds(list) == { list[i].id : i \in DOMAIN list }

\* prevTabs.map(tab => tab.id === activeTabId ? {...tab, ...updates} : tab)
UpdateActiveUrlTitle(list, id, url, title) ==
  [i \in DOMAIN list |->
     IF list[i].id = id THEN [list[i] EXCEPT !.url = url, !.title = title] ELSE list[i]]

UpdateActiveTitle(list, id, title) ==
  [i \in DOMAIN list |-> IF list[i].id = id THEN [list[i] EXCEPT !.title = title] ELSE list[i]]

AppCall(op, tabId) == [op |-> op, tabId |-> tabId]

AppInit ==
  /\ tabs = <<Tab("1", "New Tab", NewTabUrl, Undefined)>>
  /\ activeTabId = "1"
  /\ historyStack = <<HistoryEntry(NewTabUrl, "New Tab")>>
  /\ appNow = 1000
  /\ trails = addCrumb(EmptyMap, "1", NewTabUrl, "New Tab", 1000)
  /\ appStorage = NoItem
  /\ appCall = AppCall("mount", "1")
  /\ appCount = 0

AppIdle ==
  /\ tabs = <<>>
  /\ activeTabId = ""
  /\ historyStack = <<>>
  /\ appNow = -1
  /\ trails = EmptyMap
  /\ appStorage = NoItem
  /\ appCall = AppCall("none", "")
  /\ appCount = 0

AppStep(op, tabId) ==
  /\ appNow >= 0
  /\ appCount < MaxEvents
  /\ appCount' = appCount + 1
  /\ appCall' = AppCall(op, tabId)
  /\ OnlyApp

HandleNewTab ==
  LET id == DateNowString(appNow)
  IN  /\ AppStep("handleNewTab", id)
      /\ tabs' = Append(tabs, Tab(id, "New Tab", NewTabUrl, Undefined))
      /\ activeTabId' = id
      /\ historyStack' = <<HistoryEntry(NewTabUrl, "New Tab")>>
      /\ trails' = addCrumb(trails, id, NewTabUrl, "New Tab", appNow)
      /\ UNCHANGED <<appStorage, appNow>>

HandleTabClick ==
  \E tabId \in TabIds(tabs) :
    /\ AppStep("handleTabClick", tabId)
    /\ activeTabId' = tabId
    /\ historyStack' = LET tab == tabs[TabIndex(tabs, tabId)]
                       IN  <<HistoryEntry(tab.url, tab.title)>>
    /\ UNCHANGED <<tabs, trails, appStorage, appNow>>

\* what closing leaves in the jar: the closing tab is saved unless it shows
\* the new tab page
JarAfterClose(tabId, random) ==
  LET closingTab == tabs[TabIndex(tabs, tabId)]
  IN  IF closingTab.url # NewTabUrl
      THEN addToJar(appStorage,
                    JarEntry(appNow, random, closingTab.url, closingTab.title,
                             closingTab.favicon, exportTrail(trails, tabId)))
      ELSE appStorage

\* clearTrail, and the crumb of the tab that replaces the last one
ClosedTrails(tabId) == clearTrail(trails, tabId)

HandleTabClose ==
  \E tabId \in TabIds(tabs), random \in Randoms :
    LET tabIndex == TabIndex(tabs, tabId)
        newTabs  == SelectSeq(tabs, LAMBDA t : t.id # tabId)
        newTabId == DateNowString(appNow)
    IN  /\ AppStep("handleTabClose", tabId)
        /\ appStorage' = JarAfterClose(tabId, random)
        /\ UNCHANGED appNow
        /\ IF Len(tabs) = 1
           THEN /\ tabs' = <<Tab(newTabId, "New Tab", NewTabUrl, Undefined)>>
                /\ activeTabId' = newTabId
                /\ historyStack' = <<HistoryEntry(NewTabUrl, "New Tab")>>
                /\ trails' = addCrumb(ClosedTrails(tabId), newTabId, NewTabUrl, "New Tab",
                                      appNow)
           ELSE /\ tabs' = newTabs
                /\ trails' = ClosedTrails(tabId)
                   \* with no tab left newTabs[newActiveIndex] is undefined and
                   \* reading its id throws: the handler ends there
                /\ IF tabId = activeTabId /\ Len(newTabs) > 0
                   THEN LET newActiveTab == newTabs[Min(tabIndex - 1, Len(newTabs) - 1) + 1]
                        IN  /\ activeTabId' = newActiveTab.id
                            /\ historyStack' =
                                 <<HistoryEntry(newActiveTab.url, newActiveTab.title)>>
                   ELSE UNCHANGED <<activeTabId, historyStack>>

\* the Cookie Jar page, mounted and one of its entries clicked:
\* cleanExpired(), getJar(), restoreFromJar(entry.id), then handleRestoreTab
HandleRestoreTab ==
  LET mounted == cleanExpired(appStorage, appNow).item
  IN  \E i \in DOMAIN getJar(mounted) :
        LET entry    == getJar(mounted)[i]
            restored == restoreFromJar(mounted, entry.id)
            id       == DateNowString(appNow)
            it       == restored.result.value
        IN  /\ AppStep("handleRestoreTab", id)
            /\ appStorage' = restored.item
            /\ tabs' = Append(tabs, Tab(id, it.title, it.url, GetOr(it, "favicon", Undefined)))
            /\ activeTabId' = id
            /\ historyStack' = <<HistoryEntry(it.url, it.title)>>
            /\ trails' = IF Len(it.breadcrumbs) > 0
                         THEN setTrail(trails, id, it.breadcrumbs)
                         ELSE addCrumb(trails, id, it.url, it.title, appNow)
            /\ UNCHANGED appNow

\* navigateToUrl with the address of an internal page, showUrl included
NavigateToUrl ==
  \E url \in InternalUrls :
    LET title == getInternalPageTitle(parseInternalUrl(url))
    IN  /\ AppStep("navigateToUrl", activeTabId)
        /\ historyStack' = IF Len(historyStack) = 0 \/ historyStack[Len(historyStack)].url # url
                           THEN Append(historyStack, HistoryEntry(url, title))
                           ELSE historyStack
        /\ trails' = addCrumb(trails, activeTabId, url, title, appNow)
        /\ tabs' = UpdateActiveUrlTitle(tabs, activeTabId, url, title)
        /\ UNCHANGED <<activeTabId, appStorage, appNow>>

\* the listener of onBrowserViewNavigated
BrowserViewNavigated ==
  \E url \in ExternalUrls, title \in PageTitles :
    /\ AppStep("onBrowserViewNavigated", activeTabId)
    /\ tabs' = UpdateActiveUrlTitle(tabs, activeTabId, url, title)
    /\ IF Len(historyStack) > 0 /\ historyStack[Len(historyStack)].url = url
       THEN UNCHANGED <<historyStack, trails>>
       ELSE /\ historyStack' = Append(historyStack, HistoryEntry(url, title))
            /\ trails' = addCrumb(trails, activeTabId, url, title, appNow)
    /\ UNCHANGED <<activeTabId, appStorage, appNow>>

\* the most recent entry of the stack with this url takes the title
RetitleLast(entries, url, title) ==
  IF \E i \in DOMAIN entries : entries[i].url = url
  THEN LET i == CHOOSE k \in DOMAIN entries :
                  entries[k].url = url /\ \A j \in (k + 1)..Len(entries) : entries[j].url # url
       IN  [entries EXCEPT ![i].title = title]
  ELSE entries

\* the listener of onBrowserViewTitleUpdated
BrowserViewTitleUpdated ==
  \E url \in ExternalUrls, title \in PageTitles :
    /\ AppStep("onBrowserViewTitleUpdated", activeTabId)
    /\ tabs' = UpdateActiveTitle(tabs, activeTabId, title)
    /\ historyStack' = RetitleLast(historyStack, url, title)
    /\ UNCHANGED <<activeTabId, trails, appStorage, appNow>>

\* time passes between two handlers
AppClockAdvance ==
  /\ AppStep("clock", "")
  /\ appNow' = appNow + 1
  /\ UNCHANGED <<tabs, activeTabId, historyStack, trails, appStorage>>

\* C20: closing a tab whose URL is not cookie://newtab puts exactly one new
\* entry at the front of the Cookie Jar, with that tab's url, its title and
\* its whole breadcrumb trail as it was when the tab was closed; afterwards
\* no trail is stored for the closed tab id, and the trail of every other
\* tab is what it was.
C20_CloseSavesTabAndClearsItsTrail ==
  [][(appCount' = appCount + 1 /\ appCall'.op = "handleTabClose"
      /\ tabs[TabIndex(tabs, appCall'.tabId)].url # NewTabUrl)
     => LET tabId  == appCall'.tabId
            tab    == tabs[TabIndex(tabs, tabId)]
            before == getJar(appStorage)
            after  == getJar(appStorage')
        IN  /\ Len(after) = Len(before) + 1
            /\ SubSeq(after, 2, Len(after)) = before
            /\ after[1].url = tab.url
            /\ after[1].title = tab.title
            /\ after[1].breadcrumbs = getTrail(trails, tabId)
            /\ getTrail(trails', tabId) = <<>>
            /\ \A other \in (DOMAIN trails) \ {tabId} :
                 getTrail(trails', other) = getTrail(trails, other)]_vars

(***************************************************************************)
(* The trail stage: breadcrumbs.ts called directly.  A crumb is an object: *)
(* crumbHeap holds the crumb objects, and an array of crumbs is a sequence *)
(* of positions in crumbHeap, so that two arrays can hold the same object. *)
(* The arrays themselves are never shared: setTrail and exportTrail spread *)
(* into a new array and addCrumb only pushes to the array of the map.      *)
(* Date.now() is read as the number of calls made so far.                  *)
(***************************************************************************)
MaxCrumbCalls == 4

TrailTabs == {"t1", "t2"}

TrailUrls == {"https://a.example", "https://b.example"}

TrailTitles == {"A", ""}

\* the arrays a caller hands to setTrail
CallerTrails ==
  { <<Breadcrumb("https://a.example", "A", 0)>>,
    <<Breadcrumb("https://a.example", "A", 0), Breadcrumb("https://b.example", "B", 0)>> }

\* the crumbs an array of references holds
DerefIn(heap, refs) == [i \in DOMAIN refs |-> heap[refs[i]]]

\* the trails map read as values
TrailValues(heap, map) == [tabId \in DOMAIN map |-> DerefIn(heap, map[tabId])]

\* the array exportTrail returned, and the tab it was asked for
Exported(tabId, crumbs) == [tabId |-> tabId, crumbs |-> crumbs]

TrailCall(op, tabId, url, title) == [op |-> op, tabId |-> tabId, url |-> url, title |-> title]

TrailInit ==
  /\ crumbHeap = <<>>
  /\ trailRefs = EmptyMap
  /\ exported = Exported("", <<>>)
  /\ callerCrumbs = <<>>
  /\ trailCall = TrailCall("start", "", "", "")
  /\ addsOnly = TRUE
  /\ trailCalls = 0

TrailIdle ==
  /\ crumbHeap = <<>>
  /\ trailRefs = EmptyMap
  /\ exported = Exported("", <<>>)
  /\ callerCrumbs = <<>>
  /\ trailCall = TrailCall("none", "", "", "")
  /\ addsOnly = FALSE
  /\ trailCalls = 0

TrailStep(op, tabId, url, title) ==
  /\ trailCall.op # "none"
  /\ trailCalls < MaxCrumbCalls
  /\ trailCalls' = trailCalls + 1
  /\ trailCall' = TrailCall(op, tabId, url, title)
  /\ addsOnly' = (addsOnly /\ op = "addCrumb")
  /\ OnlyTrail

\* addCrumb over the objects: a crumb with the url of the last one is
\* retitled in place, any other is a new object pushed to the tab's array
AddCrumbCall ==
  \E tabId \in TrailTabs, url \in TrailUrls, title \in TrailTitles :
    LET before == getTrail(TrailValues(crumbHeap, trailRefs), tabId)
        after  == getTrail(addCrumb(TrailValues(crumbHeap, trailRefs), tabId, url, title,
                                    trailCalls), tabId)
        refs   == getTrail(trailRefs, tabId)
    IN  /\ TrailStep("addCrumb", tabId, url, title)
        /\ IF Len(after) = Len(before)
           THEN /\ crumbHeap' = IF Len(refs) > 0
                                THEN [crumbHeap EXCEPT ![refs[Len(refs)]] = after[Len(after)]]
                                ELSE crumbHeap
                /\ UNCHANGED trailRefs
           ELSE /\ crumbHeap' = Append(crumbHeap, after[Len(after)])
                /\ trailRefs' = Put(trailRefs, tabId, Append(refs, Len(crumbHeap) + 1))
        /\ UNCHANGED <<exported, callerCrumbs>>

\* the caller makes an array of new crumbs and hands it to setTrail
SetTrailCall ==
  \E tabId \in TrailTabs, crumbs \in CallerTrails :
    /\ TrailStep("setTrail", tabId, "", "")
    /\ crumbHeap' = crumbHeap \o crumbs
    /\ callerCrumbs' = [i \in DOMAIN crumbs |-> Len(crumbHeap) + i]
    /\ trailRefs' = setTrail(trailRefs, tabId, callerCrumbs')
    /\ UNCHANGED exported

ClearTrailCall ==
  \E tabId \in TrailTabs :
    /\ TrailStep("clearTrail", tabId, "", "")
    /\ trailRefs' = clearTrail(trailRefs, tabId)
    /\ UNCHANGED <<crumbHeap, exported, callerCrumbs>>

\* the caller keeps the array exportTrail returns
ExportTrailCall ==
  \E tabId \in TrailTabs :
    /\ TrailStep("exportTrail", tabId, "", "")
    /\ exported' = Exported(tabId, exportTrail(trailRefs, tabId))
    /\ UNCHANGED <<crumbHeap, trailRefs, callerCrumbs>>

\* the caller pushes one more crumb to the array it handed to setTrail
CallerPush ==
  /\ Len(callerCrumbs) > 0
  /\ TrailStep("push", "", "", "")
  /\ crumbHeap' = Append(crumbHeap, Breadcrumb("https://c.example", "C", 0))
  /\ callerCrumbs' = Append(callerCrumbs, Len(crumbHeap) + 1)
  /\ UNCHANGED <<trailRefs, exported>>

\* the trails as values, now
Trails == TrailValues(crumbHeap, trailRefs)

NoAdjacentSameUrl(trail) ==
  \A i \in 1..(Len(trail) - 1) : trail[i].url # trail[i + 1].url

\* C21: as long as only addCrumb has been called, starting from no trail,
\* no trail has two adjacent crumbs with the same url; and an addCrumb whose
\* url is that of the tab's last crumb adds no crumb and changes nothing of
\* the trail but the title of that last crumb, which becomes the title given.
C21_NoAdjacentDuplicates ==
  [][addsOnly'
     => /\ \A tabId \in DOMAIN trailRefs' :
             NoAdjacentSameUrl(DerefIn(crumbHeap', trailRefs'[tabId]))
        /\ LET tabId  == trailCall'.tabId
               before == getTrail(Trails, tabId)
               after  == getTrail(TrailValues(crumbHeap', trailRefs'), tabId)
           IN  (Len(before) > 0 /\ before[Len(before)].url = trailCall'.url)
               => /\ Len(after) = Len(before)
                  /\ after = [before EXCEPT ![Len(before)].title = trailCall'.title]]_vars

\* a trail of two crumbs whose first was retitled in place by an addCrumb
\* that repeated its url: only so does a crumb come to hold the empty title
C21_Witness ==
  /\ addsOnly
  /\ \E tabId \in DOMAIN trailRefs :
       /\ Len(Trails[tabId]) = 2
       /\ Trails[tabId][1].title = ""

\* C22: as long as only addCrumb has been called, with any titles, the
\* empty one included, every crumb of every trail has a non-empty title.
C22_NoEmptyTitle ==
  addsOnly => \A tabId \in DOMAIN trailRefs :
                \A i \in DOMAIN Trails[tabId] : Trails[tabId][i].title # ""

\* C23: the array exportTrail returned for a tab holds the same crumbs, with
\* the same urls and titles, after any later addCrumb, setTrail or clearTrail
\* on that tab; a crumb the caller pushes to the array it handed to setTrail
\* leaves every stored trail as it was; and an addCrumb leaves the crumbs of
\* that array of the caller as they were.
C23_ExportAndSetCopy ==
  [][/\ (trailCall'.op \in {"addCrumb", "setTrail", "clearTrail"}
         /\ trailCalls' = trailCalls + 1 /\ trailCall'.tabId = exported.tabId)
        => DerefIn(crumbHeap', exported.crumbs) = DerefIn(crumbHeap, exported.crumbs)
     /\ (trailCall'.op = "push" /\ trailCalls' = trailCalls + 1)
        => TrailValues(crumbHeap', trailRefs') = Trails
     /\ (trailCall'.op = "addCrumb" /\ trailCalls' = trailCalls + 1)
        => DerefIn(crumbHeap', callerCrumbs) = DerefIn(crumbHeap, callerCrumbs)]_vars

(***************************************************************************)
(* The CSS stage: tokenizeCSS and the parse of the CSS parser, the latter  *)
(* one iteration of its token loop at a time.  A CSS text is the sequence  *)
(* of its characters.  The texts drawn hold no "." and no "#", so that of  *)
(* parseSelector only the universal and the tag-name cases are reached.    *)
(***************************************************************************)
MaxCssPieces == 5

CssPieces ==
  { <<"a">>, <<"{">>, <<"}">>, <<":">>, <<";">>, <<" ">>, <<",">>, <<"/", "*">>,
    <<"*", "/">> }

RECURSIVE CssTexts(_)
CssTexts(k) ==
  IF k = 0 THEN { <<>> }
  ELSE LET shorter == CssTexts(k - 1)
       IN  shorter \cup { s \o pc : s \in shorter, pc \in CssPieces }

CSSToken(type, value) == [type |-> type, value |-> value]

\* the first position from pos on that holds one of the stop characters,
\* css.length when none does
ScanTo(css, pos, stops) ==
  LET hits == { i \in pos..(Len(css) - 1) : css[i + 1] \in stops }
  IN  IF hits = {} THEN Len(css) ELSE CHOOSE i \in hits : \A j \in hits : i <= j

\* tokens with one more token of the text, unless the trimmed text is empty
PushText(toks, type, text) ==
  IF Trim(text) # <<>> THEN Append(toks, CSSToken(type, Trim(text))) ELSE toks

\* the while loop of tokenizeCSS from pos on
RECURSIVE CssScan(_, _, _, _, _)
CssScan(css, pos, inRule, expectingValue, toks) ==
  IF pos >= Len(css) THEN toks
  ELSE LET c          == css[pos + 1]
           endComment == IndexOfFrom(css, <<"*", "/">>, pos + 2)
       IN  CASE IsSpace(c) -> CssScan(css, pos + 1, inRule, expectingValue, toks)
             [] ~ IsSpace(c) /\ Slice(css, pos, pos + 2) = <<"/", "*">> /\ endComment # -1 ->
                  CssScan(css, endComment + 2, inRule, expectingValue,
                          Append(toks, CSSToken("comment",
                                                Trim(Slice(css, pos + 2, endComment)))))
             [] c = "{" ->
                  CssScan(css, pos + 1, TRUE, FALSE, Append(toks, CSSToken("openBrace", <<"{">>)))
             [] c = "}" ->
                  CssScan(css, pos + 1, FALSE, FALSE,
                          Append(toks, CSSToken("closeBrace", <<"}">>)))
             [] c = ":" /\ inRule ->
                  CssScan(css, pos + 1, inRule, TRUE, Append(toks, CSSToken("colon", <<":">>)))
             [] c = ";" ->
                  CssScan(css, pos + 1, inRule, FALSE,
                          Append(toks, CSSToken("semicolon", <<";">>)))
             [] OTHER ->
                  IF ~ inRule
                  THEN LET end == ScanTo(css, pos, {"{"})
                       IN  CssScan(css, end, inRule, expectingValue,
                                   PushText(toks, "selector", Slice(css, pos, end)))
                  ELSE IF expectingValue
                       THEN LET end == ScanTo(css, pos, {";", "}"})
                            IN  CssScan(css, end, inRule, FALSE,
                                        PushText(toks, "value", Slice(css, pos, end)))
                       ELSE LET end == ScanTo(css, pos, {":", "}"})
                            IN  CssScan(css, end, inRule, expectingValue,
                                        PushText(toks, "property", Slice(css, pos, end)))

tokenizeCSS(css) == CssScan(css, 0, FALSE, FALSE, <<>>)

\* the letters and digits the text starts with, when it starts with a letter
RECURSIVE NameRun(_)
NameRun(text) ==
  IF text # <<>> /\ (IsLetter(Head(text)) \/ Head(text) = "-")
  THEN <<Head(text)>> \o NameRun(Tail(text))
  ELSE <<>>

parseSelector(selectorStr) ==
  LET trimmed  == Trim(selectorStr)
      tagMatch == IF trimmed # <<>> /\ IsLetter(Head(trimmed)) THEN NameRun(trimmed) ELSE <<>>
  IN  IF trimmed = <<"*">> THEN Sel("universal", <<"*">>)
      ELSE IF tagMatch # <<>> THEN Sel("tag", ToLowerCase(tagMatch))
           ELSE Sel("tag", ToLowerCase(trimmed))

\* split(','), trim, drop the empty parts, parseSelector each
parseSelectorList(selectorStr) ==
  LET parts == SelectSeq([i \in DOMAIN SplitOn(selectorStr, ",") |->
                            Trim(SplitOn(selectorStr, ",")[i])],
                         LAMBDA part : Len(part) > 0)
  IN  [i \in DOMAIN parts |-> parseSelector(parts[i])]

\* tokens[i]?.type, i counted from 1
TypeAt(toks, i) == IF i \in DOMAIN toks THEN toks[i].type ELSE "undefined"

\* the loop that reads declarations until the close brace, from token i on
RECURSIVE ReadDeclarations(_, _, _)
ReadDeclarations(toks, i, declarations) ==
  IF i > Len(toks) \/ toks[i].type = "closeBrace"
  THEN [i |-> i, declarations |-> declarations]
  ELSE IF toks[i].type = "property" /\ TypeAt(toks, i + 1) = "colon"
       THEN IF TypeAt(toks, i + 2) = "value"
            THEN ReadDeclarations(toks,
                                  IF TypeAt(toks, i + 3) = "semicolon" THEN i + 4 ELSE i + 3,
                                  Append(declarations, Decl(toks[i].value, toks[i + 2].value)))
            ELSE ReadDeclarations(toks, i + 2, declarations)
       ELSE ReadDeclarations(toks, i + 1, declarations)

\* the rules a selector token at i makes when no open brace follows it
RuleWithoutBrace(toks, i) ==
  IF Len(parseSelectorList(toks[i].value)) > 0
  THEN << Rule(parseSelectorList(toks[i].value), <<>>) >>
  ELSE <<>>

CssInit ==
  /\ cssPc = "input"
  /\ cssIn \in CssTexts(MaxCssPieces)
  /\ cssTokens = <<>>
  /\ cssI = 1
  /\ cssRules = <<>>

CssIdle ==
  /\ cssPc = "idle"
  /\ cssIn = <<>>
  /\ cssTokens = <<>>
  /\ cssI = 1
  /\ cssRules = <<>>

TokenizeCss ==
  /\ cssPc = "input"
  /\ cssTokens' = tokenizeCSS(cssIn)
  /\ cssPc' = "parse"
  /\ UNCHANGED <<cssIn, cssI, cssRules>>
  /\ OnlyCss

\* the parser is at a token of the given type
CssAt(type) == cssPc = "parse" /\ cssI <= Len(cssTokens) /\ cssTokens[cssI].type = type

ParseCssComment ==
  /\ CssAt("comment")
  /\ cssI' = cssI + 1
  /\ UNCHANGED <<cssPc, cssIn, cssTokens, cssRules>>
  /\ OnlyCss

\* the selector case: the whole rule is read in this iteration
ParseCssRule ==
  /\ CssAt("selector")
  /\ IF TypeAt(cssTokens, cssI + 1) = "openBrace"
     THEN LET selectors == parseSelectorList(cssTokens[cssI].value)
              body      == ReadDeclarations(cssTokens, cssI + 2, <<>>)
          IN  /\ cssI' = IF TypeAt(cssTokens, body.i) = "closeBrace" THEN body.i + 1
                         ELSE body.i
              /\ cssRules' = IF Len(selectors) > 0
                             THEN Append(cssRules, Rule(selectors, body.declarations))
                             ELSE cssRules
     ELSE /\ cssI' = cssI + 1
          /\ cssRules' = cssRules \o RuleWithoutBrace(cssTokens, cssI)
  /\ UNCHANGED <<cssPc, cssIn, cssTokens>>
  /\ OnlyCss

ParseCssSkip ==
  /\ cssPc = "parse"
  /\ cssI <= Len(cssTokens)
  /\ cssTokens[cssI].type \notin {"comment", "selector"}
  /\ cssI' = cssI + 1
  /\ UNCHANGED <<cssPc, cssIn, cssTokens, cssRules>>
  /\ OnlyCss

ParseCssReturn ==
  /\ cssPc = "parse"
  /\ cssI > Len(cssTokens)
  /\ cssPc' = "done"
  /\ UNCHANGED <<cssIn, cssTokens, cssI, cssRules>>
  /\ OnlyCss

\* the positions of the selector tokens an open brace follows directly and
\* whose text holds a selector, in order
RuleStarts ==
  SelectSeq([i \in DOMAIN cssTokens |-> i],
            LAMBDA i : /\ cssTokens[i].type = "selector"
                       /\ TypeAt(cssTokens, i + 1) = "openBrace"
                       /\ Len(parseSelectorList(cssTokens[i].value)) > 0)

\* C29: the rules of the stylesheet come, in source order, from the selector
\* tokens that an open brace follows directly, one rule from each, so that
\* selector text with no open brace after it makes no rule; and every
\* iteration of the parser's loop moves on in the tokens, so the loop ends.
C29_RulesOnlyFromSelectorAndBrace ==
  /\ [](cssPc = "done"
        => /\ Len(cssRules) = Len(RuleStarts)
           /\ \A k \in DOMAIN cssRules :
                cssRules[k].selectors = parseSelectorList(cssTokens[RuleStarts[k]].value))
  /\ [][(cssPc = "parse" /\ cssPc' = "parse") => cssI' > cssI]_vars

\* C30: in the application, after any handlers have run, the tab list is not
\* empty, no two tabs have the same id, and activeTabId is the id of a tab of
\* the list.
C30_TabsWellFormed ==
  appNow >= 0 =>
    /\ Len(tabs) > 0
    /\ \A i, j \in DOMAIN tabs : tabs[i].id = tabs[j].id => i = j
    /\ activeTabId \in TabIds(tabs)

(***************************************************************************)
(* The specifications, one per stage.                                      *)
(***************************************************************************)
InitStyle == StyleInit /\ SelIdle /\ TokIdle /\ ParseIdle /\ LayoutIdle /\
             LenIdle /\ PipeIdle /\ RenderIdle /\ MatchIdle /\ JarIdle /\
             AppIdle /\ TrailIdle /\ CssIdle

NextStyle == StyleTree

SpecStyle == InitStyle /\ [][NextStyle]_vars

InitSel == SelInit /\ StyleIdle /\ TokIdle /\ ParseIdle /\ LayoutIdle /\
           LenIdle /\ PipeIdle /\ RenderIdle /\ MatchIdle /\ JarIdle /\
           AppIdle /\ TrailIdle /\ CssIdle

NextSel == CalcSpecificity

SpecSel == InitSel /\ [][NextSel]_vars

InitTok == TokInit /\ StyleIdle /\ SelIdle /\ ParseIdle /\ LayoutIdle /\
           LenIdle /\ PipeIdle /\ RenderIdle /\ MatchIdle /\ JarIdle /\
           AppIdle /\ TrailIdle /\ CssIdle

NextTok ==
  \/ TokComment
  \/ TokDoctype
  \/ TokEndTag
  \/ TokTag
  \/ TokText
  \/ TokReturn

SpecTok == InitTok /\ [][NextTok]_vars

InitParse == ParseInit /\ StyleIdle /\ SelIdle /\ TokIdle /\ LayoutIdle /\
             LenIdle /\ PipeIdle /\ RenderIdle /\ MatchIdle /\ JarIdle /\
             AppIdle /\ TrailIdle /\ CssIdle

NextParse ==
  \/ ParseStartTag
  \/ ParseSelfClosingTag
  \/ ParseEndTag
  \/ ParseText
  \/ ParseComment
  \/ ParseDoctype
  \/ ParseFinish

SpecParse == InitParse /\ [][NextParse]_vars

InitLayout == LayoutInit /\ StyleIdle /\ SelIdle /\ TokIdle /\ ParseIdle /\
              LenIdle /\ PipeIdle /\ RenderIdle /\ MatchIdle /\ JarIdle /\
              AppIdle /\ TrailIdle /\ CssIdle

NextLayout ==
  \/ LayoutTree
  \/ BuildDisplayList

SpecLayout == InitLayout /\ [][NextLayout]_vars

InitLen == LenInit /\ StyleIdle /\ SelIdle /\ TokIdle /\ ParseIdle /\
           LayoutIdle /\ PipeIdle /\ RenderIdle /\ MatchIdle /\ JarIdle /\
           AppIdle /\ TrailIdle /\ CssIdle

NextLen == ParseLength

SpecLen == InitLen /\ [][NextLen]_vars

InitPipe == PipeInit /\ StyleIdle /\ SelIdle /\ TokIdle /\ ParseIdle /\
            LayoutIdle /\ LenIdle /\ RenderIdle /\ MatchIdle /\ JarIdle /\
            AppIdle /\ TrailIdle /\ CssIdle

NextPipe ==
  \/ GetDisplayList
  \/ NextCall

SpecPipe == InitPipe /\ [][NextPipe]_vars

InitRender == RenderInit /\ StyleIdle /\ SelIdle /\ TokIdle /\ ParseIdle /\
              LayoutIdle /\ LenIdle /\ PipeIdle /\ MatchIdle /\ JarIdle /\
              AppIdle /\ TrailIdle /\ CssIdle

NextRender ==
  \/ RenderStages
  \/ NewPainter
  \/ PainterClear
  \/ PainterExecute
  \/ RenderReturn
  \/ RenderAgain

SpecRender == InitRender /\ [][NextRender]_vars

InitMatch == MatchInit /\ StyleIdle /\ SelIdle /\ TokIdle /\ ParseIdle /\
             LayoutIdle /\ LenIdle /\ PipeIdle /\ RenderIdle /\ JarIdle /\
             AppIdle /\ TrailIdle /\ CssIdle

NextMatch == Matches

SpecMatch == InitMatch /\ [][NextMatch]_vars

InitJar == JarInit /\ StyleIdle /\ SelIdle /\ TokIdle /\ ParseIdle /\
           LayoutIdle /\ LenIdle /\ PipeIdle /\ RenderIdle /\ MatchIdle /\
           AppIdle /\ TrailIdle /\ CssIdle

NextJar ==
  \/ AddToJar
  \/ RestoreFromJar
  \/ CleanExpired
  \/ GetJar
  \/ ClockAdvance

SpecJar == InitJar /\ [][NextJar]_vars

InitApp == AppInit /\ StyleIdle /\ SelIdle /\ TokIdle /\ ParseIdle /\
           LayoutIdle /\ LenIdle /\ PipeIdle /\ RenderIdle /\ MatchIdle /\
           JarIdle /\ TrailIdle /\ CssIdle

NextApp ==
  \/ HandleNewTab
  \/ HandleTabClick
  \/ HandleTabClose
  \/ HandleRestoreTab
  \/ NavigateToUrl
  \/ BrowserViewNavigated
  \/ BrowserViewTitleUpdated
  \/ AppClockAdvance

SpecApp == InitApp /\ [][NextApp]_vars

InitTrail == TrailInit /\ StyleIdle /\ SelIdle /\ TokIdle /\ ParseIdle /\
             LayoutIdle /\ LenIdle /\ PipeIdle /\ RenderIdle /\ MatchIdle /\
             JarIdle /\ AppIdle /\ CssIdle

NextTrail ==
  \/ AddCrumbCall
  \/ SetTrailCall
  \/ ClearTrailCall
  \/ ExportTrailCall
  \/ CallerPush

SpecTrail == InitTrail /\ [][NextTrail]_vars

InitCss == CssInit /\ StyleIdle /\ SelIdle /\ TokIdle /\ ParseIdle /\
           LayoutIdle /\ LenIdle /\ PipeIdle /\ RenderIdle /\ MatchIdle /\
           JarIdle /\ AppIdle /\ TrailIdle

NextCss ==
  \/ TokenizeCss
  \/ ParseCssComment
  \/ ParseCssRule
  \/ ParseCssSkip
  \/ ParseCssReturn

SpecCss == InitCss /\ [][NextCss]_vars

====
